---------------------------- MODULE Spec2Model ----------------------------
(***************************************************************************)
(* A model of src/highlighting.c (Geany): the style tables that are filled *)
(* from two layered key files (system defaults, user overrides) and then   *)
(* sent to the Scintilla widget.                                           *)
(*                                                                         *)
(* C values are modelled as follows.                                       *)
(*   gchar*            a TLA+ string; the NULL pointer is the string NULL  *)
(*   gchar** / arrays  a record [ptr, arr]; ptr = "NULL" is the NULL       *)
(*                     pointer, ptr = "heap" an allocated array whose      *)
(*                     C index i is arr[i + 1]                             *)
(*   GKeyFile*         a record with ptr = "keyfile"; ptr = "NULL" is NULL *)
(*   gint colours      integers                                            *)
(*   gboolean          BOOLEAN                                             *)
(***************************************************************************)
EXTENDS Integers, Sequences, FiniteSets, TLC

(***************************************************************************)
(* Bounds of the model.                                                    *)
(***************************************************************************)
(***************************************************************************)
(* Pointers and strings.                                                   *)
(***************************************************************************)
NULL == "NULL"

NullArr == [ptr |-> "NULL", arr |-> <<>>]

HeapArr(a) == [ptr |-> "heap", arr |-> a]

\* A key file holds explicit entries (lists, strs: functions on <<section, key>>
\* pairs) and one value for every other key (other_list, other_str; a NULL
\* there means that every other key is missing).
KeyFile(lists, other_list, strs, other_str) ==
    [ptr |-> "keyfile", lists |-> lists, other_list |-> other_list,
     strs |-> strs, other_str |-> other_str]

NullKeyFile == [ptr |-> "NULL"]

\* g_strdup: a fresh copy with the same contents; g_strdup(NULL) is NULL
g_strdup(s) == s

\* TRUE, once the value v of a statement is computed: the statements of a
\* handler are evaluated in their order
Evaluated(v) == DOMAIN v = DOMAIN v

\* #define GEANY_WHITESPACE_CHARS: the macro's text, used by its name only
GEANY_WHITESPACE_CHARS == "GEANY_WHITESPACE_CHARS"

\* GEANY_WORDCHARS (geany.h), used by its name only
GEANY_WORDCHARS == "GEANY_WORDCHARS"

(***************************************************************************)
(* GLib key files. A key is a pair <<section, key>>. The values of the     *)
(* "styling" section are read as ';'-separated lists, all others as plain  *)
(* strings.                                                                *)
(***************************************************************************)
\* NULL when the key is missing
g_key_file_get_string(kf, section, key) ==
    IF <<section, key>> \in DOMAIN kf.strs THEN kf.strs[<<section, key>>]
    ELSE kf.other_str

\* a NULL list when the key is missing
g_key_file_get_string_list(kf, section, key) ==
    IF <<section, key>> \in DOMAIN kf.lists THEN kf.lists[<<section, key>>]
    ELSE kf.other_list

\* list[i] of a non-NULL string list with C index i. The array holds
\* Len + 1 pointers, the last one NULL; an index beyond that reads memory
\* outside the array, whose content oob is not determined by the program.
ListAt(list, i, oob) ==
    IF i < Len(list.arr) THEN list.arr[i + 1]
    ELSE IF i = Len(list.arr) THEN NULL
    ELSE oob

(***************************************************************************)
(* Conversions.                                                            *)
(***************************************************************************)
\* The value of the six hexadecimal digits of a well-formed "0xRRGGBB" string.
HexDigits ==
    "0x000000" :> \h000000 @@ "0x00007f" :> \h00007f @@ "0x000080" :> \h000080 @@
    "0x000099" :> \h000099 @@ "0x0000ff" :> \h0000ff @@ "0x001122" :> \h001122 @@
    "0x003030" :> \h003030 @@ "0x004f4f" :> \h004f4f @@ "0x007f00" :> \h007f00 @@
    "0x008000" :> \h008000 @@ "0x008020" :> \h008020 @@ "0x008080" :> \h008080 @@
    "0x101060" :> \h101060 @@ "0x102060" :> \h102060 @@ "0x105010" :> \h105010 @@
    "0x111199" :> \h111199 @@ "0x112233" :> \h112233 @@ "0x300080" :> \h300080 @@
    "0x301010" :> \h301010 @@ "0x3f5fbf" :> \h3f5fbf @@ "0x400080" :> \h400080 @@
    "0x404000" :> \h404000 @@ "0x404080" :> \h404080 @@ "0x406090" :> \h406090 @@
    "0x445566" :> \h445566 @@ "0x600080" :> \h600080 @@ "0x606000" :> \h606000 @@
    "0x660099" :> \h660099 @@ "0x7f0000" :> \h7f0000 @@ "0x800080" :> \h800080 @@
    "0x808000" :> \h808000 @@ "0x808080" :> \h808080 @@ "0xB8F4B8" :> \hB8F4B8 @@
    "0xaabbcc" :> \haabbcc @@ "0xc0c0c0" :> \hc0c0c0 @@ "0xd00000" :> \hd00000 @@
    "0xd0d0d0" :> \hd0d0d0 @@ "0xdd00a6" :> \hdd00a6 @@ "0xdfdfdf" :> \hdfdfdf @@
    "0xe0c0e0" :> \he0c0e0 @@ "0xe5e5e5" :> \he5e5e5 @@ "0xf0f0f0" :> \hf0f0f0 @@
    "0xff0000" :> \hff0000 @@ "0xff901e" :> \hff901e @@ "0xffff00" :> \hffff00 @@
    "0xffffff" :> \hffffff

\* utils_strtod(source, NULL, FALSE): -1 unless source is "0x" and six
\* hexadecimal digits; else red | green << 8 | blue << 16.
utils_strtod(source) ==
    IF source = NULL \/ source \notin DOMAIN HexDigits THEN -1
    ELSE LET v == HexDigits[source]
             red == v \div 65536
             green == (v \div 256) % 256
             blue == v % 256
         IN red + green * 256 + blue * 65536

\* utils_atob: TRUE for "TRUE" and "true" only
utils_atob(str) ==
    IF str = NULL THEN FALSE ELSE str \in {"TRUE", "true"}

\* The decimal prefix strtol(str, &end, 10) converts, for the strings that
\* start with one; for every other string strtol leaves end at str.
DecimalPrefix ==
    "0" :> 0 @@ "1" :> 1 @@ "2" :> 2 @@ "3" :> 3 @@ "256" :> 256 @@
    "0x112233" :> 0 @@ "0x445566" :> 0 @@ "0xaabbcc" :> 0 @@ "0x001122" :> 0

strtol_converts(str) == str \in DOMAIN DecimalPrefix

strtol(str) == IF strtol_converts(str) THEN DecimalPrefix[str] ELSE 0

\* a rotation of the three bytes: 0xRRGGBB to 0xBBRRGG
rotate_rgb_ThreeWay(color) ==
    ((color \div 256) % 65536) + ((color % 256) * 65536)

\* convert 0x..RRGGBB to 0x..BBGGRR
rotate_rgb(color) ==
    ((color \div 65536) % 256) + (((color \div 256) % 256) * 256) + ((color % 256) * 65536)

(***************************************************************************)
(* HighlightingStyle records.                                              *)
(***************************************************************************)
Style(fg, bg, bold, italic) ==
    [foreground |-> fg, background |-> bg, bold |-> bold, italic |-> italic]

\* a record of g_new0(HighlightingStyle, n), and of zero-initialised statics
ZeroStyle == Style(0, 0, FALSE, FALSE)

(***************************************************************************)
(* The key file getters. config is the system key file, configh the user's *)
(* one. oob is the content of the memory an out-of-bounds list[i] reads.   *)
(***************************************************************************)
\* get_keyfile_keywords_result without the default for a missing key
get_keyfile_keywords_result_NoDefault(config, configh, section, key, default_value) ==
    IF config.ptr = "NULL" \/ configh.ptr = "NULL" \/ section = NULL
    THEN g_strdup(default_value)
    ELSE LET resulth == g_key_file_get_string(configh, section, key)
         IN IF resulth = NULL
            THEN g_key_file_get_string(config, section, key)
            ELSE resulth

\* the value get_keyfile_keywords stores in style_sets[index].keywords[pos]
get_keyfile_keywords_result(config, configh, section, key, default_value) ==
    IF config.ptr = "NULL" \/ configh.ptr = "NULL" \/ section = NULL
    THEN g_strdup(default_value)
    ELSE LET resulth == g_key_file_get_string(configh, section, key)
             result == IF resulth = NULL
                       THEN g_key_file_get_string(config, section, key)
                       ELSE resulth
         IN IF result = NULL THEN g_strdup(default_value) ELSE result

\* get_keyfile_keywords on the style sets ss
get_keyfile_keywords(ss, config, configh, section, key, index, pos, default_value) ==
    [ss EXCEPT ![index].keywords.arr[pos + 1] =
        get_keyfile_keywords_result(config, configh, section, key, default_value)]

\* the value get_keyfile_wordchars stores in *wordchars
get_keyfile_wordchars(config, configh) ==
    IF config.ptr = "NULL" \/ configh.ptr = "NULL"
    THEN g_strdup(GEANY_WORDCHARS)
    ELSE LET resulth == g_key_file_get_string(configh, "settings", "wordchars")
             result == IF resulth = NULL
                       THEN g_key_file_get_string(config, "settings", "wordchars")
                       ELSE resulth
         IN IF result = NULL THEN g_strdup(GEANY_WORDCHARS) ELSE result

\* LayeredList asking the system configuration first
LayeredList_SystemFirst(config, configh, section, key) ==
    LET list == g_key_file_get_string_list(config, section, key)
    IN IF list.ptr = "NULL" THEN g_key_file_get_string_list(configh, section, key)
       ELSE list

\* list = get_string_list(configh); if (list == NULL) list = get_string_list(config)
LayeredList(config, configh, section, key) ==
    LET listh == g_key_file_get_string_list(configh, section, key)
    IN IF listh.ptr = "NULL" THEN g_key_file_get_string_list(config, section, key)
       ELSE listh

\* list != NULL && list[i] != NULL
HasField(list, i, oob) == list.ptr # "NULL" /\ ListAt(list, i, oob) # NULL

\* the record get_keyfile_style leaves in *style
get_keyfile_style(config, configh, key_name, default_style, style, oob) ==
    IF config.ptr = "NULL" \/ configh.ptr = "NULL" \/ key_name = NULL
    THEN style      \* g_return_if_fail
    ELSE LET list == LayeredList(config, configh, "styling", key_name)
         IN [foreground |-> IF HasField(list, 0, oob)
                            THEN utils_strtod(ListAt(list, 0, oob))
                            ELSE rotate_rgb(default_style.foreground),
             background |-> IF HasField(list, 1, oob)
                            THEN utils_strtod(ListAt(list, 1, oob))
                            ELSE rotate_rgb(default_style.background),
             bold |-> IF HasField(list, 2, oob)
                      THEN utils_atob(ListAt(list, 2, oob))
                      ELSE default_style.bold,
             italic |-> IF HasField(list, 3, oob)
                        THEN utils_atob(ListAt(list, 3, oob))
                        ELSE default_style.italic]

\* the record get_keyfile_hex leaves in *style
get_keyfile_hex(config, configh, section, key, foreground, background, bold, style, oob) ==
    IF config.ptr = "NULL" \/ configh.ptr = "NULL" \/ section = NULL
    THEN style
    ELSE LET list == LayeredList(config, configh, section, key)
         IN [foreground |-> IF HasField(list, 0, oob)
                            THEN utils_strtod(ListAt(list, 0, oob))
                            ELSE IF foreground # NULL THEN utils_strtod(foreground)
                            ELSE style.foreground,
             background |-> IF HasField(list, 1, oob)
                            THEN utils_strtod(ListAt(list, 1, oob))
                            ELSE IF background # NULL THEN utils_strtod(background)
                            ELSE style.background,
             bold |-> IF HasField(list, 2, oob)
                      THEN utils_atob(ListAt(list, 2, oob))
                      ELSE utils_atob(bold),
             italic |-> IF HasField(list, 3, oob)
                        THEN utils_atob(ListAt(list, 3, oob))
                        ELSE FALSE]

\* one field of get_keyfile_int: strtol's value, or the default when the
\* field is missing or strtol converted nothing (list[i] == end)
IntField(list, i, default_val, oob) ==
    IF HasField(list, i, oob) /\ strtol_converts(ListAt(list, i, oob))
    THEN strtol(ListAt(list, i, oob))
    ELSE default_val

\* the record get_keyfile_int leaves in *style (bold and italic untouched)
get_keyfile_int(config, configh, section, key, fdefault_val, sdefault_val, style, oob) ==
    IF config.ptr = "NULL" \/ configh.ptr = "NULL" \/ section = NULL
    THEN style
    ELSE LET list == LayeredList(config, configh, section, key)
         IN [style EXCEPT !.foreground = IntField(list, 0, fdefault_val, oob),
                          !.background = IntField(list, 1, sdefault_val, oob)]

\* the string get_keyfile_whitespace_chars returns
get_keyfile_whitespace_chars(config, configh) ==
    LET result == IF config.ptr = "NULL" \/ configh.ptr = "NULL" THEN NULL
                  ELSE LET resulth == g_key_file_get_string(configh, "settings",
                                                            "whitespace_chars")
                       IN IF resulth = NULL
                          THEN g_key_file_get_string(config, "settings",
                                                     "whitespace_chars")
                          ELSE resulth
    IN IF result = NULL THEN g_strdup(GEANY_WHITESPACE_CHARS) ELSE result

(***************************************************************************)
(* Filetypes. The model keeps six of the built-in filetypes, in the order  *)
(* of filetype_id: GEANY_FILETYPES_NONE is the last filetype and           *)
(* GEANY_MAX_BUILT_IN_FILETYPES follows it.                                *)
(***************************************************************************)
FiletypeNames == <<"C", "HTML", "PHP", "PYTHON", "XML", "NONE">>

FtId(name) == (CHOOSE i \in 1..Len(FiletypeNames) : FiletypeNames[i] = name) - 1

GEANY_FILETYPES_C == FtId("C")

GEANY_FILETYPES_HTML == FtId("HTML")

GEANY_FILETYPES_PHP == FtId("PHP")

GEANY_FILETYPES_PYTHON == FtId("PYTHON")

GEANY_FILETYPES_XML == FtId("XML")

GEANY_FILETYPES_NONE == FtId("NONE")

GEANY_MAX_BUILT_IN_FILETYPES == Len(FiletypeNames)

\* the indices of style_sets[GEANY_MAX_BUILT_IN_FILETYPES - 1]
StyleSetIds == 0..(GEANY_MAX_BUILT_IN_FILETYPES - 2)

\* enum: Geany common styling
GCS ==
    {"GCS_DEFAULT", "GCS_SELECTION", "GCS_BRACE_GOOD", "GCS_BRACE_BAD",
     "GCS_MARGIN_LINENUMBER", "GCS_MARGIN_FOLDING", "GCS_CURRENT_LINE", "GCS_CARET",
     "GCS_INDENT_GUIDE", "GCS_WHITE_SPACE", "GCS_LINE_WRAP_VISUALS",
     "GCS_LINE_WRAP_INDENT", "GCS_TRANSLUCENCY", "GCS_MARKER_LINE",
     "GCS_MARKER_SEARCH", "GCS_MARKER_TRANSLUCENCY"}

(***************************************************************************)
(* The state of the program.                                               *)
(*   style_sets              static StyleSet style_sets[]                  *)
(*   common_style_set        static struct common_style_set                *)
(*   whitespace_chars        static gchar *whitespace_chars                *)
(*   common_style_set_valid  the static flag of styleset_common_init       *)
(*   keyfile_loaded          filetypes_load_config's record of the         *)
(*                           filetypes whose configuration it has loaded   *)
(*   disk                    the key files filetypes_load_config reads     *)
(*   trace                   what the last call of the interface did, in   *)
(*                           order: configuration loads requested, init    *)
(*                           handlers run, styleset handlers run, messages *)
(*                           sent to the widget                            *)
(*   faults                  the invalid memory accesses of the last call  *)
(*   ret                     the last call and what it returned            *)
(*   calls                   the number of calls so far                    *)
(*   getter_args, getter_result   the getter harness                       *)
(***************************************************************************)
VARIABLES style_sets, common_style_set, whitespace_chars, common_style_set_valid,
          keyfile_loaded, disk, trace, faults, ret, calls, getter_args, getter_result

vars == <<style_sets, common_style_set, whitespace_chars, common_style_set_valid,
          keyfile_loaded, disk, trace, faults, ret, calls, getter_args, getter_result>>

\* static StyleSet style_sets[...] = {{NULL, NULL, NULL}}
style_sets_init ==
    [i \in StyleSetIds |-> [styling |-> NullArr, keywords |-> NullArr, wordchars |-> NULL]]

\* the zero-initialised static common_style_set
common_style_set_init ==
    [styling |-> [g \in GCS |-> ZeroStyle],
     folding_style |-> [marker |-> 0, lines |-> 0, draw_line |-> 0],
     invert_all |-> 0,
     wordchars |-> NULL]

\* the program state as one record, at the start of a call of the interface
Cur ==
    [style_sets |-> style_sets, common_style_set |-> common_style_set,
     whitespace_chars |-> whitespace_chars,
     common_style_set_valid |-> common_style_set_valid,
     keyfile_loaded |-> keyfile_loaded, trace |-> <<>>, faults |-> {}]

Event(ev, msg, w, l) == [ev |-> ev, msg |-> msg, w |-> w, l |-> l]

Log(st, ev, msg, w, l) == [st EXCEPT !.trace = Append(@, Event(ev, msg, w, l))]

\* the event of a statement that runs under a condition
LogIf(cond, st, ev, msg, w, l) == IF cond THEN Log(st, ev, msg, w, l) ELSE st

(***************************************************************************)
(* The init handlers: a handler is the sequence of its statements.         *)
(***************************************************************************)
NEW_STYLE_ARRAY(ft, n) == [op |-> "new_style_array", ft |-> ft, n |-> n]

HEX(ft, section, key, fg, bg, bold, idx) ==
    [op |-> "get_keyfile_hex", ft |-> ft, section |-> section, key |-> key,
     fg |-> fg, bg |-> bg, bold |-> bold, idx |-> idx]

STYLE(ft, key, default_style, idx) ==
    [op |-> "get_keyfile_style", ft |-> ft, key |-> key, dflt |-> default_style,
     idx |-> idx]

INT(ft, section, key, fdefault_val, sdefault_val, idx) ==
    [op |-> "get_keyfile_int", ft |-> ft, section |-> section, key |-> key,
     fdef |-> fdefault_val, sdef |-> sdefault_val, idx |-> idx]

NEW_KEYWORDS(ft, n) == [op |-> "new_keywords", ft |-> ft, n |-> n]

KEYWORDS(ft, section, key, pos, default_value) ==
    [op |-> "get_keyfile_keywords", ft |-> ft, section |-> section, key |-> key,
     pos |-> pos, dflt |-> default_value]

KEYWORDS_END(ft, pos) == [op |-> "keywords_end", ft |-> ft, pos |-> pos]

SET_NULL(ft, field) == [op |-> "set_null", ft |-> ft, field |-> field]

WORDCHARS(ft) == [op |-> "get_keyfile_wordchars", ft |-> ft]

\* style_sets[file_type_id].styling = g_new0(HighlightingStyle, styling_count)
new_style_array(ss, file_type_id, styling_count) ==
    [ss EXCEPT ![file_type_id].styling = HeapArr([i \in 1..styling_count |-> ZeroStyle])]

\* one statement s of an init handler on the style sets ss; env.junk_str is
\* the content of the slots of a fresh g_new(gchar*, n)
InitStep(ss, config, configh, env, s) ==
    CASE s.op = "new_style_array" -> new_style_array(ss, s.ft, s.n)
      [] s.op = "get_keyfile_hex" ->
            [ss EXCEPT ![s.ft].styling.arr[s.idx + 1] =
                get_keyfile_hex(config, configh, s.section, s.key, s.fg, s.bg, s.bold,
                                @, env.oob)]
      [] s.op = "get_keyfile_style" ->
            [ss EXCEPT ![s.ft].styling.arr[s.idx + 1] =
                get_keyfile_style(config, configh, s.key, s.dflt, @, env.oob)]
      [] s.op = "get_keyfile_int" ->
            [ss EXCEPT ![s.ft].styling.arr[s.idx + 1] =
                get_keyfile_int(config, configh, s.section, s.key, s.fdef, s.sdef,
                                @, env.oob)]
      [] s.op = "new_keywords" ->
            [ss EXCEPT ![s.ft].keywords = HeapArr([i \in 1..s.n |-> env.junk_str])]
      [] s.op = "get_keyfile_keywords" ->
            get_keyfile_keywords(ss, config, configh, s.section, s.key, s.ft, s.pos,
                                 s.dflt)
      [] s.op = "keywords_end" -> [ss EXCEPT ![s.ft].keywords.arr[s.pos + 1] = NULL]
      [] s.op = "set_null" /\ s.field = "styling" -> [ss EXCEPT ![s.ft].styling = NullArr]
      [] s.op = "set_null" /\ s.field = "keywords" ->
            [ss EXCEPT ![s.ft].keywords = NullArr]
      [] s.op = "get_keyfile_wordchars" ->
            [ss EXCEPT ![s.ft].wordchars = get_keyfile_wordchars(config, configh)]

RECURSIVE RunInit(_, _, _, _, _)
\* the statements steps, in order
RunInit(ss, config, configh, env, steps) ==
    IF Len(steps) = 0 THEN ss
    ELSE IF Len(steps) = 1 THEN InitStep(ss, config, configh, env, steps[1])
    ELSE LET half == Len(steps) \div 2
             first == RunInit(ss, config, configh, env, SubSeq(steps, 1, half))
         IN IF Evaluated(first)
            THEN RunInit(first, config, configh, env, SubSeq(steps, half + 1, Len(steps)))
            ELSE ss

\* Geany generic styles, initialized to defaults
gsd_default == Style(\h000000, \hffffff, FALSE, FALSE)

gsd_comment == Style(\hd00000, \hffffff, FALSE, FALSE)

gsd_comment_doc == Style(\h3f5fbf, \hffffff, TRUE, FALSE)

gsd_number == Style(\h007f00, \hffffff, FALSE, FALSE)

gsd_reserved_word == Style(\h00007f, \hffffff, TRUE, FALSE)

gsd_system_word == Style(\h991111, \hffffff, TRUE, FALSE)

gsd_user_word == Style(\h0000d0, \hffffff, TRUE, FALSE)

gsd_string == Style(\hff901e, \hffffff, FALSE, FALSE)

gsd_pragma == Style(\h007f7f, \hffffff, FALSE, FALSE)

gsd_string_eol == Style(\h000000, \he0c0e0, FALSE, FALSE)

c_like_uuid == Style(\h404080, \hffffff, FALSE, FALSE)

c_like_operator == Style(\h301010, \hffffff, FALSE, FALSE)

c_like_verbatim == Style(\h301010, \hffffff, FALSE, FALSE)

c_like_regex == Style(\h105090, \hffffff, FALSE, FALSE)

\* StyleEntry entries[] of styleset_c_like_init
c_like_entries ==
    << [name |-> "default", style |-> gsd_default],
       [name |-> "comment", style |-> gsd_comment],
       [name |-> "commentline", style |-> gsd_comment],
       [name |-> "commentdoc", style |-> gsd_comment_doc],
       [name |-> "number", style |-> gsd_number],
       [name |-> "word", style |-> gsd_reserved_word],
       [name |-> "word2", style |-> gsd_system_word],
       [name |-> "string", style |-> gsd_string],
       [name |-> "character", style |-> gsd_string],
       [name |-> "uuid", style |-> c_like_uuid],
       [name |-> "preprocessor", style |-> gsd_pragma],
       [name |-> "operator", style |-> c_like_operator],
       [name |-> "identifier", style |-> gsd_default],
       [name |-> "stringeol", style |-> gsd_string_eol],
       [name |-> "verbatim", style |-> c_like_verbatim],
       [name |-> "regex", style |-> c_like_regex],
       [name |-> "commentlinedoc", style |-> gsd_comment_doc],
       [name |-> "commentdockeyword", style |-> gsd_comment_doc],
       [name |-> "commentdockeyworderror", style |-> gsd_comment_doc],
       [name |-> "globalclass", style |-> gsd_user_word] >>

\* for (i = 0; i < 20; i++) get_keyfile_style(..., &style_sets[filetype_idx].styling[i])
styleset_c_like_init(ss, config, config_home, filetype_idx, env) ==
    RunInit(ss, config, config_home, env,
            [i \in 1..20 |-> STYLE(filetype_idx, c_like_entries[i].name,
                                   c_like_entries[i].style, i - 1)])

styleset_c_init(ss, config, config_home, env) ==
    RunInit(styleset_c_like_init(new_style_array(ss, GEANY_FILETYPES_C, 21),
                                 config, config_home, GEANY_FILETYPES_C, env),
            config, config_home, env,
      << INT(GEANY_FILETYPES_C, "styling", "styling_within_preprocessor", 1, 0, 20),
         NEW_KEYWORDS(GEANY_FILETYPES_C, 4),
         KEYWORDS(GEANY_FILETYPES_C, "keywords", "primary", 0, "if const struct char int fl..."),
         KEYWORDS(GEANY_FILETYPES_C, "keywords", "secondary", 1, ""),
         KEYWORDS(GEANY_FILETYPES_C, "keywords", "docComment", 2, "TODO FIXME"),
         KEYWORDS_END(GEANY_FILETYPES_C, 3),
         WORDCHARS(GEANY_FILETYPES_C) >>)

styleset_php_init(ss, config, config_home, env) ==
    RunInit(ss, config, config_home, env,
      << SET_NULL(GEANY_FILETYPES_PHP, "styling"),
         SET_NULL(GEANY_FILETYPES_PHP, "keywords"),
         WORDCHARS(GEANY_FILETYPES_PHP) >>)

styleset_html_init(ss, config, config_home, env) ==
    RunInit(ss, config, config_home, env,
      << SET_NULL(GEANY_FILETYPES_HTML, "styling"),
         SET_NULL(GEANY_FILETYPES_HTML, "keywords"),
         WORDCHARS(GEANY_FILETYPES_HTML) >>)

styleset_markup_init(ss, config, config_home, env) ==
    RunInit(ss, config, config_home, env,
      << NEW_STYLE_ARRAY(GEANY_FILETYPES_XML, 55),
         HEX(GEANY_FILETYPES_XML, "styling", "html_default", "0x000000", "0xffffff", "false", 0),
         HEX(GEANY_FILETYPES_XML, "styling", "html_tag", "0x000099", "0xffffff", "false", 1),
         HEX(GEANY_FILETYPES_XML, "styling", "html_tagunknown", "0xff0000",
             "0xffffff", "false", 2),
         HEX(GEANY_FILETYPES_XML, "styling", "html_attribute", "0x007f00",
             "0xffffff", "false", 3),
         HEX(GEANY_FILETYPES_XML, "styling", "html_attributeunknown", "0xff0000",
             "0xffffff", "false", 4),
         HEX(GEANY_FILETYPES_XML, "styling", "html_number", "0x800080", "0xffffff", "false", 5),
         HEX(GEANY_FILETYPES_XML, "styling", "html_doublestring", "0xff901e",
             "0xffffff", "false", 6),
         HEX(GEANY_FILETYPES_XML, "styling", "html_singlestring", "0xff901e",
             "0xffffff", "false", 7),
         HEX(GEANY_FILETYPES_XML, "styling", "html_other", "0x800080", "0xffffff", "false", 8),
         HEX(GEANY_FILETYPES_XML, "styling", "html_comment", "0x808080", "0xffffff", "false", 9),
         HEX(GEANY_FILETYPES_XML, "styling", "html_entity", "0x800080", "0xffffff", "false", 10),
         HEX(GEANY_FILETYPES_XML, "styling", "html_tagend", "0x000080", "0xffffff", "false", 11),
         HEX(GEANY_FILETYPES_XML, "styling", "html_xmlstart", "0x000099",
             "0xf0f0f0", "false", 12),
         HEX(GEANY_FILETYPES_XML, "styling", "html_xmlend", "0x000099", "0xf0f0f0", "false", 13),
         HEX(GEANY_FILETYPES_XML, "styling", "html_script", "0x000080", "0xf0f0f0", "false", 14),
         HEX(GEANY_FILETYPES_XML, "styling", "html_asp", "0x004f4f", "0xf0f0f0", "false", 15),
         HEX(GEANY_FILETYPES_XML, "styling", "html_aspat", "0x004f4f", "0xf0f0f0", "false", 16),
         HEX(GEANY_FILETYPES_XML, "styling", "html_cdata", "0x660099", "0xffffff", "false", 17),
         HEX(GEANY_FILETYPES_XML, "styling", "html_question", "0x0000ff",
             "0xffffff", "false", 18),
         HEX(GEANY_FILETYPES_XML, "styling", "html_value", "0x660099", "0xffffff", "false", 19),
         HEX(GEANY_FILETYPES_XML, "styling", "html_xccomment", "0x660099",
             "0xffffff", "false", 20),
         HEX(GEANY_FILETYPES_XML, "styling", "sgml_default", "0x000000",
             "0xffffff", "false", 21),
         HEX(GEANY_FILETYPES_XML, "styling", "sgml_comment", "0x808080",
             "0xffffff", "false", 22),
         HEX(GEANY_FILETYPES_XML, "styling", "sgml_special", "0x007f00",
             "0xffffff", "false", 23),
         HEX(GEANY_FILETYPES_XML, "styling", "sgml_command", "0x111199", "0xffffff", "true", 24),
         HEX(GEANY_FILETYPES_XML, "styling", "sgml_doublestring", "0xff901e",
             "0xffffff", "false", 25),
         HEX(GEANY_FILETYPES_XML, "styling", "sgml_simplestring", "0xff901e",
             "0xffffff", "false", 26),
         HEX(GEANY_FILETYPES_XML, "styling", "sgml_1st_param", "0x404080",
             "0xffffff", "false", 27),
         HEX(GEANY_FILETYPES_XML, "styling", "sgml_entity", "0x301010", "0xffffff", "false", 28),
         HEX(GEANY_FILETYPES_XML, "styling", "sgml_block_default", "0x000000",
             "0xffffff", "false", 29),
         HEX(GEANY_FILETYPES_XML, "styling", "sgml_1st_param_comment", "0x406090",
             "0xffffff", "false", 30),
         HEX(GEANY_FILETYPES_XML, "styling", "sgml_error", "0xff0000", "0xffffff", "false", 31),
         HEX(GEANY_FILETYPES_XML, "styling", "php_default", "0x000000", "0xffffff", "false", 32),
         HEX(GEANY_FILETYPES_XML, "styling", "php_simplestring", "0x008000",
             "0xffffff", "false", 33),
         HEX(GEANY_FILETYPES_XML, "styling", "php_hstring", "0x008000", "0xffffff", "false", 34),
         HEX(GEANY_FILETYPES_XML, "styling", "php_number", "0x606000", "0xffffff", "false", 35),
         HEX(GEANY_FILETYPES_XML, "styling", "php_word", "0x000099", "0xffffff", "false", 36),
         HEX(GEANY_FILETYPES_XML, "styling", "php_variable", "0x7f0000",
             "0xffffff", "false", 37),
         HEX(GEANY_FILETYPES_XML, "styling", "php_comment", "0x808080", "0xffffff", "false", 38),
         HEX(GEANY_FILETYPES_XML, "styling", "php_commentline", "0x808080",
             "0xffffff", "false", 39),
         HEX(GEANY_FILETYPES_XML, "styling", "php_operator", "0x102060",
             "0xffffff", "false", 40),
         HEX(GEANY_FILETYPES_XML, "styling", "php_hstring_variable", "0x101060",
             "0xffffff", "false", 41),
         HEX(GEANY_FILETYPES_XML, "styling", "php_complex_variable", "0x105010",
             "0xffffff", "false", 42),
         HEX(GEANY_FILETYPES_XML, "styling", "jscript_start", "0x008080",
             "0xffffff", "false", 43),
         HEX(GEANY_FILETYPES_XML, "styling", "jscript_default", "0x000000",
             "0xffffff", "false", 44),
         HEX(GEANY_FILETYPES_XML, "styling", "jscript_comment", "0xd00000",
             "0xffffff", "false", 45),
         HEX(GEANY_FILETYPES_XML, "styling", "jscript_commentline", "0xd00000",
             "0xffffff", "false", 46),
         HEX(GEANY_FILETYPES_XML, "styling", "jscript_commentdoc", "0x3f5fbf",
             "0xffffff", "true", 47),
         HEX(GEANY_FILETYPES_XML, "styling", "jscript_number", "0x007f00",
             "0xffffff", "false", 48),
         HEX(GEANY_FILETYPES_XML, "styling", "jscript_word", "0x000000",
             "0xffffff", "false", 49),
         HEX(GEANY_FILETYPES_XML, "styling", "jscript_keyword", "0x00007f",
             "0xffffff", "true", 50),
         HEX(GEANY_FILETYPES_XML, "styling", "jscript_doublestring", "0xff901e",
             "0xffffff", "false", 51),
         HEX(GEANY_FILETYPES_XML, "styling", "jscript_singlestring", "0xff901e",
             "0xffffff", "false", 52),
         HEX(GEANY_FILETYPES_XML, "styling", "jscript_symbols", "0x301010",
             "0xffffff", "false", 53),
         HEX(GEANY_FILETYPES_XML, "styling", "jscript_stringeol", "0x000000",
             "0xe0c0e0", "false", 54),
         NEW_KEYWORDS(GEANY_FILETYPES_XML, 7),
         KEYWORDS(GEANY_FILETYPES_XML, "keywords", "html", 0, "a abbr acronym address appl..."),
         KEYWORDS(GEANY_FILETYPES_XML, "keywords", "javascript", 1,
             "abs abstract acos anchor as..."),
         KEYWORDS(GEANY_FILETYPES_XML, "keywords", "vbscript", 2,
             "and as byref byval case cal..."),
         KEYWORDS(GEANY_FILETYPES_XML, "keywords", "python", 3,
             "and as assert break class c..."),
         KEYWORDS(GEANY_FILETYPES_XML, "keywords", "php", 4, "abstract and array as bool ..."),
         KEYWORDS(GEANY_FILETYPES_XML, "keywords", "sgml", 5, "ELEMENT DOCTYPE ATTLIST ENT..."),
         KEYWORDS_END(GEANY_FILETYPES_XML, 6),
         WORDCHARS(GEANY_FILETYPES_XML) >>)

styleset_python_init(ss, config, config_home, env) ==
    RunInit(ss, config, config_home, env,
      << NEW_STYLE_ARRAY(GEANY_FILETYPES_PYTHON, 16),
         HEX(GEANY_FILETYPES_PYTHON, "styling", "default", "0x000000", "0xffffff", "false", 0),
         HEX(GEANY_FILETYPES_PYTHON, "styling", "commentline", "0x808080",
             "0xffffff", "false", 1),
         HEX(GEANY_FILETYPES_PYTHON, "styling", "number", "0x400080", "0xffffff", "false", 2),
         HEX(GEANY_FILETYPES_PYTHON, "styling", "string", "0x008000", "0xffffff", "false", 3),
         HEX(GEANY_FILETYPES_PYTHON, "styling", "character", "0x008000", "0xffffff", "false", 4),
         HEX(GEANY_FILETYPES_PYTHON, "styling", "word", "0x600080", "0xffffff", "true", 5),
         HEX(GEANY_FILETYPES_PYTHON, "styling", "triple", "0x008020", "0xffffff", "false", 6),
         HEX(GEANY_FILETYPES_PYTHON, "styling", "tripledouble", "0x404000",
             "0xffffff", "false", 7),
         HEX(GEANY_FILETYPES_PYTHON, "styling", "classname", "0x003030", "0xffffff", "false", 8),
         HEX(GEANY_FILETYPES_PYTHON, "styling", "defname", "0x000080", "0xffffff", "false", 9),
         HEX(GEANY_FILETYPES_PYTHON, "styling", "operator", "0x300080", "0xffffff", "false", 10),
         HEX(GEANY_FILETYPES_PYTHON, "styling", "identifier", "0x000000",
             "0xffffff", "false", 11),
         HEX(GEANY_FILETYPES_PYTHON, "styling", "commentblock", "0x808080",
             "0xffffff", "false", 12),
         HEX(GEANY_FILETYPES_PYTHON, "styling", "stringeol", "0x000000",
             "0xe0c0e0", "false", 13),
         HEX(GEANY_FILETYPES_PYTHON, "styling", "word2", "0xdd00a6", "0xffffff", "true", 14),
         HEX(GEANY_FILETYPES_PYTHON, "styling", "decorator", "0x808000",
             "0xffffff", "false", 15),
         NEW_KEYWORDS(GEANY_FILETYPES_PYTHON, 3),
         KEYWORDS(GEANY_FILETYPES_PYTHON, "keywords", "primary", 0,
             "and as assert break class c..."),
         KEYWORDS(GEANY_FILETYPES_PYTHON, "keywords", "identifiers", 1, ""),
         KEYWORDS_END(GEANY_FILETYPES_PYTHON, 2),
         WORDCHARS(GEANY_FILETYPES_PYTHON) >>)

\* the get_keyfile_hex calls of styleset_common_init
common_hex_entries ==
    << [key |-> "default", fg |-> "0x000000", bg |-> "0xffffff", bold |-> "false",
        gcs |-> "GCS_DEFAULT"],
       [key |-> "selection", fg |-> "0xc0c0c0", bg |-> "0x7f0000", bold |-> "false",
        gcs |-> "GCS_SELECTION"],
       [key |-> "brace_good", fg |-> "0x000000", bg |-> "0xffffff", bold |-> "false",
        gcs |-> "GCS_BRACE_GOOD"],
       [key |-> "brace_bad", fg |-> "0xff0000", bg |-> "0xffffff", bold |-> "false",
        gcs |-> "GCS_BRACE_BAD"],
       [key |-> "margin_linenumber", fg |-> "0x000000", bg |-> "0xd0d0d0", bold |-> "false",
        gcs |-> "GCS_MARGIN_LINENUMBER"],
       [key |-> "margin_folding", fg |-> "0x000000", bg |-> "0xdfdfdf", bold |-> "false",
        gcs |-> "GCS_MARGIN_FOLDING"],
       [key |-> "current_line", fg |-> "0x000000", bg |-> "0xe5e5e5", bold |-> "true",
        gcs |-> "GCS_CURRENT_LINE"],
       [key |-> "caret", fg |-> "0x000000", bg |-> "0x000000", bold |-> "false",
        gcs |-> "GCS_CARET"],
       [key |-> "indent_guide", fg |-> "0xc0c0c0", bg |-> "0xffffff", bold |-> "false",
        gcs |-> "GCS_INDENT_GUIDE"],
       [key |-> "white_space", fg |-> "0xc0c0c0", bg |-> "0xffffff", bold |-> "true",
        gcs |-> "GCS_WHITE_SPACE"],
       [key |-> "marker_line", fg |-> "0x000000", bg |-> "0xffff00", bold |-> "false",
        gcs |-> "GCS_MARKER_LINE"],
       [key |-> "marker_search", fg |-> "0x000000", bg |-> "0xB8F4B8", bold |-> "false",
        gcs |-> "GCS_MARKER_SEARCH"] >>

RECURSIVE common_hex(_, _, _, _, _)
\* the first n get_keyfile_hex calls of styleset_common_init on
\* common_style_set.styling
common_hex(styling, config, config_home, env, n) ==
    IF n = 0 THEN styling
    ELSE LET e == common_hex_entries[n]
         IN [common_hex(styling, config, config_home, env, n - 1) EXCEPT ![e.gcs] =
                get_keyfile_hex(config, config_home, "styling", e.key, e.fg, e.bg,
                                e.bold, @, env.oob)]

\* the integer settings of styleset_common_init, in the order of their
\* get_keyfile_int calls, which all write the local tmp_style
common_int_entries ==
    << [key |-> "folding_style", fdefault |-> 1, sdefault |-> 1],
       [key |-> "invert_all", fdefault |-> 0, sdefault |-> 0],
       [key |-> "folding_horiz_line", fdefault |-> 2, sdefault |-> 0],
       [key |-> "caret_width", fdefault |-> 1, sdefault |-> 0],
       [key |-> "line_wrap_visuals", fdefault |-> 3, sdefault |-> 0],
       [key |-> "line_wrap_indent", fdefault |-> 0, sdefault |-> 0],
       [key |-> "translucency", fdefault |-> 256, sdefault |-> 256],
       [key |-> "marker_translucency", fdefault |-> 256, sdefault |-> 256] >>

\* tmp_style after the n-th get_keyfile_int call of styleset_common_init
RECURSIVE tmp_style_after(_, _, _, _)
tmp_style_after(config, config_home, env, n) ==
    IF n = 0 THEN env.tmp_style
    ELSE get_keyfile_int(config, config_home, "styling", common_int_entries[n].key,
                         common_int_entries[n].fdefault, common_int_entries[n].sdefault,
                         tmp_style_after(config, config_home, env, n - 1), env.oob)

\* the statements of styleset_common_init after its guard.
\* env.tmp_style is the content of the uninitialised local tmp_style;
\* marker and lines are 2-bit fields, draw_line a 3-bit field
load_common_style_set(st, config, config_home, env) ==
    LET hexed == common_hex(st.common_style_set.styling, config, config_home, env,
                            Len(common_hex_entries))
        tmp_style(n) == tmp_style_after(config, config_home, env, n)
        styling == [hexed EXCEPT
                      !["GCS_CARET"].background = tmp_style(4).foreground,
                      !["GCS_LINE_WRAP_VISUALS"].foreground = tmp_style(5).foreground,
                      !["GCS_LINE_WRAP_VISUALS"].background = tmp_style(5).background,
                      !["GCS_LINE_WRAP_INDENT"].foreground = tmp_style(6).foreground,
                      !["GCS_TRANSLUCENCY"].foreground = tmp_style(7).foreground,
                      !["GCS_TRANSLUCENCY"].background = tmp_style(7).background,
                      !["GCS_MARKER_TRANSLUCENCY"].foreground = tmp_style(8).foreground,
                      !["GCS_MARKER_TRANSLUCENCY"].background = tmp_style(8).background]
    IN [st EXCEPT
          !.common_style_set_valid = TRUE,
          !.common_style_set =
              [styling |-> styling,
               folding_style |-> [marker |-> tmp_style(1).foreground % 4,
                                  lines |-> tmp_style(1).background % 4,
                                  draw_line |-> tmp_style(3).foreground % 8],
               invert_all |-> tmp_style(2).foreground,
               wordchars |-> get_keyfile_wordchars(config, config_home)],
          !.whitespace_chars = get_keyfile_whitespace_chars(config, config_home)]

\* styleset_common_init without its guard
styleset_common_init_EveryTime(st, config, config_home, env) ==
    load_common_style_set(st, config, config_home, env)

\* ensure filetypes.common is only loaded once
styleset_common_init(st, config, config_home, env) ==
    IF st.common_style_set_valid THEN st
    ELSE load_common_style_set(st, config, config_home, env)

(***************************************************************************)
(* Loading a filetype's configuration.                                     *)
(***************************************************************************)
\* the pair of key files filetypes_load_config reads for ft_id:
\* filetypes.common for GEANY_FILETYPES_NONE, filetypes.<ext> otherwise
DiskFiles(d, ft_id) == IF ft_id = GEANY_FILETYPES_NONE THEN d.common ELSE d.ext

RECURSIVE highlighting_init_styles(_, _, _, _, _)
\* filetypes_load_config(ft_id) of filetypes.c: loads the two key files of
\* a valid filetype once and hands them to highlighting_init_styles
filetypes_load_config(st, ft_id, env) ==
    LET st1 == Log(st, "filetypes_load_config", "", ft_id, 0)
    IN IF ft_id < 0 \/ ft_id >= GEANY_MAX_BUILT_IN_FILETYPES THEN st1
       ELSE IF st1.keyfile_loaded[ft_id] THEN st1
       ELSE highlighting_init_styles([st1 EXCEPT !.keyfile_loaded[ft_id] = TRUE], ft_id,
                                     DiskFiles(env.disk, ft_id).config,
                                     DiskFiles(env.disk, ft_id).configh, env)

\* the init handler of the switch of highlighting_init_styles
InitHandler(st, filetype_idx, config, configh, env) ==
    CASE filetype_idx = GEANY_FILETYPES_NONE ->
            styleset_common_init(st, config, configh, env)
      [] filetype_idx = GEANY_FILETYPES_C ->
            [st EXCEPT !.style_sets = styleset_c_init(@, config, configh, env)]
      [] filetype_idx = GEANY_FILETYPES_HTML ->
            [st EXCEPT !.style_sets = styleset_html_init(@, config, configh, env)]
      [] filetype_idx = GEANY_FILETYPES_PHP ->
            [st EXCEPT !.style_sets = styleset_php_init(@, config, configh, env)]
      [] filetype_idx = GEANY_FILETYPES_PYTHON ->
            [st EXCEPT !.style_sets = styleset_python_init(@, config, configh, env)]
      [] filetype_idx = GEANY_FILETYPES_XML ->
            [st EXCEPT !.style_sets = styleset_markup_init(@, config, configh, env)]
      [] OTHER -> st

\* highlighting_init_styles without the load of filetypes.common
highlighting_init_styles_NoCommon(st, filetype_idx, config, configh, env) ==
    InitHandler(LogIf(filetype_idx \in 0..GEANY_FILETYPES_NONE, st,
                      "init", "", filetype_idx, 0),
                filetype_idx, config, configh, env)

\* Called by filetypes_load_config(). The trace gets an "init" event when a
\* case of the switch runs its handler.
highlighting_init_styles(st, filetype_idx, config, configh, env) ==
    LET st1 == IF filetype_idx # GEANY_FILETYPES_NONE
               THEN filetypes_load_config(st, GEANY_FILETYPES_NONE, env)
               ELSE st
    IN InitHandler(LogIf(filetype_idx \in 0..GEANY_FILETYPES_NONE, st1,
                         "init", "", filetype_idx, 0),
                   filetype_idx, config, configh, env)

(***************************************************************************)
(* Sending styles to the widget. A message SSM(sci, msg, w, l) is the      *)
(* event Event("msg", msg, w, l) of the trace.                             *)
(***************************************************************************)
\* A 32 bit word (gint, guint) is represented by its value as a gint.
\* Its upper and lower 16 bits:
Hi16(x) == (x \div 65536) % 65536

Lo16(x) == x % 65536

\* the word of upper half hi and lower half lo
Word(hi, lo) == IF hi >= 32768 THEN (hi - 65536) * 65536 + lo ELSE hi * 65536 + lo

RECURSIVE BitOr(_, _)
\* a | b on natural numbers
BitOr(a, b) ==
    IF a = 0 THEN b
    ELSE IF b = 0 THEN a
    ELSE (IF a % 2 = 1 \/ b % 2 = 1 THEN 1 ELSE 0) + 2 * BitOr(a \div 2, b \div 2)

\* x >> n and x << n of a guint x, for n = 8 and n = 16
ShiftRight(x, n) ==
    IF n = 8 THEN Word(Hi16(x) \div 256, (Hi16(x) % 256) * 256 + (Lo16(x) \div 256))
    ELSE Word(0, Hi16(x))

ShiftLeft(x, n) ==
    IF n = 8 THEN Word((Hi16(x) % 256) * 256 + (Lo16(x) \div 256), (Lo16(x) % 256) * 256)
    ELSE Word(Lo16(x), 0)

\* 0xffffff - x in guint arithmetic
FromWhite(x) == Word((255 - Hi16(x)) % 65536, 65535 - Lo16(x))

\* a | b of two words
WordOr(a, b) == Word(BitOr(Hi16(a), Hi16(b)), BitOr(Lo16(a), Lo16(b)))

\* invert(icolour)
invert(st, icolour) ==
    IF st.common_style_set.invert_all # 0
    THEN LET r == FromWhite(icolour)
             g == FromWhite(ShiftRight(icolour, 8))
             b == FromWhite(ShiftRight(icolour, 16))
         IN WordOr(r, WordOr(ShiftLeft(g, 8), ShiftLeft(b, 16)))
    ELSE icolour

Fault(st, what) == [st EXCEPT !.faults = @ \cup {what}]

\* g_free(p) and g_strfreev(p) release the memory p points to and leave the
\* pointer as it is: ptr "freed" is a pointer to released memory, NULL is
\* ignored
ReleasedArr(a) == IF a.ptr = "heap" THEN [a EXCEPT !.ptr = "freed"] ELSE a

\* a gchar * whose string was released
FreedStr == "freed"

ReleasedStr(s) == IF s = NULL THEN NULL ELSE FreedStr

\* does style_sets[i] hold a pointer that was passed to g_free before
HoldsReleased(ss, i) ==
    \/ ss[i].styling.ptr = "freed"
    \/ ss[i].keywords.ptr = "freed"
    \/ ss[i].wordchars = FreedStr

\* the loop runs over i = 0 .. GEANY_MAX_BUILT_IN_FILETYPES - 2
highlighting_free_styles(st) ==
    [st EXCEPT
       !.style_sets = [i \in 0..(GEANY_MAX_BUILT_IN_FILETYPES - 2) |->
                          [styling |-> ReleasedArr(@[i].styling),
                           keywords |-> ReleasedArr(@[i].keywords),
                           wordchars |-> ReleasedStr(@[i].wordchars)]],
       !.faults = IF \E i \in 0..(GEANY_MAX_BUILT_IN_FILETYPES - 2) :
                        HoldsReleased(st.style_sets, i)
                  THEN @ \cup {"double free"}
                  ELSE @]

\* what a read of style_sets[ft].styling[styling_index] outside the allocated
\* records is
InvalidRead(st, ft) ==
    IF ft \in StyleSetIds /\ st.style_sets[ft].styling.ptr = "freed"
    THEN "read of a freed array"
    ELSE "read outside a styling array"

\* does style_sets[ft].styling[styling_index] name an allocated record
ValidEntry(st, ft, styling_index) ==
    /\ ft \in StyleSetIds
    /\ st.style_sets[ft].styling.ptr = "heap"
    /\ styling_index \in 0..(Len(st.style_sets[ft].styling.arr) - 1)

\* *style_ptr of set_sci_style; env.wild_style is what a read outside the
\* allocated records finds
StyleAt(st, env, ft, styling_index) ==
    IF ft = GEANY_FILETYPES_NONE THEN st.common_style_set.styling[styling_index]
    ELSE IF ValidEntry(st, ft, styling_index)
    THEN st.style_sets[ft].styling.arr[styling_index + 1]
    ELSE env.wild_style

\* set_sci_style with the two colours exchanged
set_sci_style_ColoursExchanged(st, env, style, ft, styling_index) ==
    LET style_ptr == StyleAt(st, env, ft, styling_index)
        call == Log(st, "set_sci_style", "", style, <<ft, styling_index>>)
        st1 == Log(call, "msg", "SCI_STYLESETFORE", style, invert(st, style_ptr.background))
        st2 == Log(st1, "msg", "SCI_STYLESETBACK", style, invert(st, style_ptr.foreground))
        st3 == Log(st2, "msg", "SCI_STYLESETBOLD", style, style_ptr.bold)
    IN Log(st3, "msg", "SCI_STYLESETITALIC", style, style_ptr.italic)

\* The trace gets a "set_sci_style" event for the call, before its messages.
set_sci_style(st, env, style, ft, styling_index) ==
    LET style_ptr == StyleAt(st, env, ft, styling_index)
        st0 == IF ft # GEANY_FILETYPES_NONE /\ ~ValidEntry(st, ft, styling_index)
               THEN Fault(st, InvalidRead(st, ft))
               ELSE st
        call == Log(st0, "set_sci_style", "", style, <<ft, styling_index>>)
        st1 == Log(call, "msg", "SCI_STYLESETFORE", style, invert(st, style_ptr.foreground))
        st2 == Log(st1, "msg", "SCI_STYLESETBACK", style, invert(st, style_ptr.background))
        st3 == Log(st2, "msg", "SCI_STYLESETBOLD", style, style_ptr.bold)
    IN Log(st3, "msg", "SCI_STYLESETITALIC", style, style_ptr.italic)

\* style_sets[ft].keywords[n] as a styleset handler reads it
KeywordAt(st, ft, n) ==
    IF st.style_sets[ft].keywords.ptr = "heap" /\ n < Len(st.style_sets[ft].keywords.arr)
    THEN st.style_sets[ft].keywords.arr[n + 1]
    ELSE "garbage"

\* the statements of a styleset handler
MSG(msg, w, l) == [op |-> "SSM", msg |-> msg, w |-> w, l |-> l]

STY(style, ft, styling_index) ==
    [op |-> "set_sci_style", style |-> style, ft |-> ft, idx |-> styling_index]

SendStep(st, env, s) ==
    IF s.op = "SSM" THEN Log(st, "msg", s.msg, s.w, s.l)
    ELSE set_sci_style(st, env, s.style, s.ft, s.idx)

RECURSIVE Send(_, _, _)
\* the statements steps, in order
Send(st, env, steps) ==
    IF Len(steps) = 0 THEN st
    ELSE IF Len(steps) = 1 THEN SendStep(st, env, steps[1])
    ELSE LET half == Len(steps) \div 2
             first == Send(st, env, SubSeq(steps, 1, half))
         IN IF Evaluated(first)
            THEN Send(first, env, SubSeq(steps, half + 1, Len(steps)))
            ELSE st

(***************************************************************************)
(* The styleset handlers.                                                  *)
(***************************************************************************)
styleset_common(st, env, style_bits, ft_id) ==
    Send(st, env,
            << MSG("SCI_STYLECLEARALL", 0, 0),
               MSG("SCI_SETCARETFORE", invert(st, st.common_style_set.styling["GCS_CARET"].foreground), 0),
               MSG("SCI_SETCARETWIDTH", st.common_style_set.styling["GCS_CARET"].background, 0) >>
         \o (IF st.common_style_set.styling["GCS_CARET"].bold
             THEN << MSG("SCI_SETCARETSTYLE", "CARETSTYLE_BLOCK", 0) >>
             ELSE << MSG("SCI_SETCARETSTYLE", "CARETSTYLE_LINE", 0) >>)
         \o << MSG("SCI_SETCARETLINEBACK", invert(st, st.common_style_set.styling["GCS_CURRENT_LINE"].background), 0),
               MSG("SCI_SETCARETLINEVISIBLE", st.common_style_set.styling["GCS_CURRENT_LINE"].bold, 0),
               MSG("SCI_SETCARETLINEBACKALPHA", st.common_style_set.styling["GCS_TRANSLUCENCY"].foreground, 0),
               MSG("SCI_SETSELALPHA", st.common_style_set.styling["GCS_TRANSLUCENCY"].background, 0),
               MSG("SCI_SETWRAPVISUALFLAGS", st.common_style_set.styling["GCS_LINE_WRAP_VISUALS"].foreground, 0),
               MSG("SCI_SETWRAPVISUALFLAGSLOCATION", st.common_style_set.styling["GCS_LINE_WRAP_VISUALS"].background, 0),
               MSG("SCI_SETWRAPSTARTINDENT", st.common_style_set.styling["GCS_LINE_WRAP_INDENT"].foreground, 0),
               MSG("SCI_INDICSETSTYLE", 2, "INDIC_SQUIGGLE"),
               MSG("SCI_INDICSETFORE", 0, invert(st, \h0000ff)),
               MSG("SCI_INDICSETFORE", 2, invert(st, \h0000ff)),
               MSG("SCI_MARKERDEFINE", 0, "SC_MARK_SHORTARROW"),
               MSG("SCI_MARKERSETFORE", 0, invert(st, st.common_style_set.styling["GCS_MARKER_LINE"].foreground)),
               MSG("SCI_MARKERSETBACK", 0, invert(st, st.common_style_set.styling["GCS_MARKER_LINE"].background)),
               MSG("SCI_MARKERSETALPHA", 0, st.common_style_set.styling["GCS_MARKER_TRANSLUCENCY"].foreground),
               MSG("SCI_MARKERDEFINE", 1, "SC_MARK_PLUS"),
               MSG("SCI_MARKERSETFORE", 1, invert(st, st.common_style_set.styling["GCS_MARKER_SEARCH"].foreground)),
               MSG("SCI_MARKERSETBACK", 1, invert(st, st.common_style_set.styling["GCS_MARKER_SEARCH"].background)),
               MSG("SCI_MARKERSETALPHA", 1, st.common_style_set.styling["GCS_MARKER_TRANSLUCENCY"].background),
               MSG("SCI_SETMARGINTYPEN", 2, "SC_MARGIN_SYMBOL"),
               MSG("SCI_SETMARGINMASKN", 2, "SC_MASK_FOLDERS") >>
         \o << MSG("SCI_SETFOLDFLAGS",
                 CASE st.common_style_set.folding_style.draw_line = 1 -> 4
                   [] st.common_style_set.folding_style.draw_line = 2 -> 16
                   [] OTHER -> 0,
                 0) >>
         \o (IF st.common_style_set.folding_style.marker = 2
             THEN << MSG("SCI_MARKERDEFINE", "SC_MARKNUM_FOLDEROPEN", "SC_MARK_CIRCLEMINUS"),
                     MSG("SCI_MARKERDEFINE", "SC_MARKNUM_FOLDER", "SC_MARK_CIRCLEPLUS"),
                     MSG("SCI_MARKERDEFINE", "SC_MARKNUM_FOLDEREND", "SC_MARK_CIRCLEPLUSCONNECTED"),
                     MSG("SCI_MARKERDEFINE", "SC_MARKNUM_FOLDEROPENMID", "SC_MARK_CIRCLEMINUSCONNECTED") >>
             ELSE << MSG("SCI_MARKERDEFINE", "SC_MARKNUM_FOLDEROPEN", "SC_MARK_BOXMINUS"),
                     MSG("SCI_MARKERDEFINE", "SC_MARKNUM_FOLDER", "SC_MARK_BOXPLUS"),
                     MSG("SCI_MARKERDEFINE", "SC_MARKNUM_FOLDEREND", "SC_MARK_BOXPLUSCONNECTED"),
                     MSG("SCI_MARKERDEFINE", "SC_MARKNUM_FOLDEROPENMID", "SC_MARK_BOXMINUSCONNECTED") >>)
         \o (IF st.common_style_set.folding_style.lines = 2
             THEN << MSG("SCI_MARKERDEFINE", "SC_MARKNUM_FOLDERMIDTAIL", "SC_MARK_TCORNERCURVE"),
                     MSG("SCI_MARKERDEFINE", "SC_MARKNUM_FOLDERTAIL", "SC_MARK_LCORNERCURVE") >>
             ELSE << MSG("SCI_MARKERDEFINE", "SC_MARKNUM_FOLDERMIDTAIL", "SC_MARK_TCORNER"),
                     MSG("SCI_MARKERDEFINE", "SC_MARKNUM_FOLDERTAIL", "SC_MARK_LCORNER") >>)
         \o << MSG("SCI_MARKERDEFINE", "SC_MARKNUM_FOLDERSUB", "SC_MARK_VLINE"),
               MSG("SCI_MARKERSETFORE", "SC_MARKNUM_FOLDEROPEN", \hffffff),
               MSG("SCI_MARKERSETBACK", "SC_MARKNUM_FOLDEROPEN", \h000000),
               MSG("SCI_MARKERSETFORE", "SC_MARKNUM_FOLDER", \hffffff),
               MSG("SCI_MARKERSETBACK", "SC_MARKNUM_FOLDER", \h000000),
               MSG("SCI_MARKERSETFORE", "SC_MARKNUM_FOLDERSUB", \hffffff),
               MSG("SCI_MARKERSETBACK", "SC_MARKNUM_FOLDERSUB", \h000000),
               MSG("SCI_MARKERSETFORE", "SC_MARKNUM_FOLDERTAIL", \hffffff),
               MSG("SCI_MARKERSETBACK", "SC_MARKNUM_FOLDERTAIL", \h000000),
               MSG("SCI_MARKERSETFORE", "SC_MARKNUM_FOLDEREND", \hffffff),
               MSG("SCI_MARKERSETBACK", "SC_MARKNUM_FOLDEREND", \h000000),
               MSG("SCI_MARKERSETFORE", "SC_MARKNUM_FOLDEROPENMID", \hffffff),
               MSG("SCI_MARKERSETBACK", "SC_MARKNUM_FOLDEROPENMID", \h000000),
               MSG("SCI_MARKERSETFORE", "SC_MARKNUM_FOLDERMIDTAIL", \hffffff),
               MSG("SCI_MARKERSETBACK", "SC_MARKNUM_FOLDERMIDTAIL", \h000000),
               MSG("SCI_SETPROPERTY", "fold", "1"),
               MSG("SCI_SETPROPERTY", "fold.compact", "0"),
               MSG("SCI_SETPROPERTY", "fold.comment", "1"),
               MSG("SCI_SETPROPERTY", "fold.preprocessor", "1"),
               MSG("SCI_SETPROPERTY", "fold.at.else", "1") >>
         \o (IF st.common_style_set.styling["GCS_SELECTION"].bold
             THEN << MSG("SCI_SETSELFORE", 1, invert(st, st.common_style_set.styling["GCS_SELECTION"].foreground)) >>
             ELSE << >>)
         \o (IF st.common_style_set.styling["GCS_SELECTION"].italic
             THEN << MSG("SCI_SETSELBACK", 1, invert(st, st.common_style_set.styling["GCS_SELECTION"].background)) >>
             ELSE << >>)
         \o << MSG("SCI_SETSTYLEBITS", style_bits, 0),
               MSG("SCI_SETFOLDMARGINCOLOUR", 1, invert(st, st.common_style_set.styling["GCS_MARGIN_FOLDING"].background)),
               STY("STYLE_LINENUMBER", GEANY_FILETYPES_NONE, "GCS_MARGIN_LINENUMBER"),
               STY("STYLE_BRACELIGHT", GEANY_FILETYPES_NONE, "GCS_BRACE_GOOD"),
               STY("STYLE_BRACEBAD", GEANY_FILETYPES_NONE, "GCS_BRACE_BAD"),
               STY("STYLE_INDENTGUIDE", GEANY_FILETYPES_NONE, "GCS_INDENT_GUIDE"),
               MSG("SCI_SETWHITESPACEFORE", st.common_style_set.styling["GCS_WHITE_SPACE"].bold, invert(st, st.common_style_set.styling["GCS_WHITE_SPACE"].foreground)),
               MSG("SCI_SETWHITESPACEBACK", st.common_style_set.styling["GCS_WHITE_SPACE"].italic, invert(st, st.common_style_set.styling["GCS_WHITE_SPACE"].background)) >>)

\* Assign global typedefs and user secondary keywords; env.typenames is
\* what get_global_typenames(lang) returns
assign_global_and_user_keywords(st, env, user_words) ==
    Log(st, "msg", "SCI_SETKEYWORDS", 1,
        IF env.typenames = NULL THEN user_words
        ELSE env.typenames \o " " \o user_words)

\* All stylesets except None should call this.
apply_filetype_properties(st, env, lexer, ft_id) ==
    Send(st, env,
         << MSG("SCI_SETLEXER", lexer, 0),
            MSG("SCI_SETWORDCHARS", 0, st.style_sets[ft_id].wordchars),
            MSG("SCI_SETWHITESPACECHARS", 0, st.whitespace_chars),
            MSG("SCI_AUTOCSETMAXHEIGHT", "editor_prefs.symbolcompletion_max_height", 0) >>)

styleset_c_like(st, env, filetype_idx) ==
    Send(st, env,
         << STY("STYLE_DEFAULT", filetype_idx, 0),
            STY("SCE_C_DEFAULT", filetype_idx, 0),
            STY("SCE_C_COMMENT", filetype_idx, 1),
            STY("SCE_C_COMMENTLINE", filetype_idx, 2),
            STY("SCE_C_COMMENTDOC", filetype_idx, 3),
            STY("SCE_C_NUMBER", filetype_idx, 4),
            STY("SCE_C_WORD", filetype_idx, 5),
            STY("SCE_C_WORD2", filetype_idx, 6),
            STY("SCE_C_STRING", filetype_idx, 7),
            STY("SCE_C_CHARACTER", filetype_idx, 8),
            STY("SCE_C_UUID", filetype_idx, 9),
            STY("SCE_C_PREPROCESSOR", filetype_idx, 10),
            STY("SCE_C_OPERATOR", filetype_idx, 11),
            STY("SCE_C_IDENTIFIER", filetype_idx, 12),
            STY("SCE_C_STRINGEOL", filetype_idx, 13),
            STY("SCE_C_VERBATIM", filetype_idx, 14),
            STY("SCE_C_REGEX", filetype_idx, 15),
            STY("SCE_C_COMMENTLINEDOC", filetype_idx, 16),
            STY("SCE_C_COMMENTDOCKEYWORD", filetype_idx, 17),
            STY("SCE_C_COMMENTDOCKEYWORDERROR", filetype_idx, 18),
            STY("SCE_C_GLOBALCLASS", filetype_idx, 19) >>)

styleset_c(st, env) ==
    LET ft_id == GEANY_FILETYPES_C
        st1 == styleset_common(st, env, 5, ft_id)
        st2 == apply_filetype_properties(st1, env, "SCLEX_CPP", ft_id)
        st3 == Send(st2, env,
                    << MSG("SCI_SETKEYWORDS", 0, KeywordAt(st, GEANY_FILETYPES_C, 0)),
                       MSG("SCI_SETKEYWORDS", 2, KeywordAt(st, GEANY_FILETYPES_C, 2)) >>)
        st4 == assign_global_and_user_keywords(st3, env, KeywordAt(st, GEANY_FILETYPES_C, 1))
        st5 == styleset_c_like(st4, env, GEANY_FILETYPES_C)
    IN Send(st5, env,
            (IF StyleAt(st, env, GEANY_FILETYPES_C, 20).foreground = 1
             THEN << MSG("SCI_SETPROPERTY", "styling.within.preprocessor", "1") >>
             ELSE << >>)
            \o << MSG("SCI_SETPROPERTY", "preprocessor.symbol.$(file.patterns.cpp)", "#"),
                  MSG("SCI_SETPROPERTY", "preprocessor.start.$(file.patterns.cpp)",
                      "if ifdef ifndef"),
                  MSG("SCI_SETPROPERTY", "preprocessor.middle.$(file.patterns.cpp)",
                      "else elif"),
                  MSG("SCI_SETPROPERTY", "preprocessor.end.$(file.patterns.cpp)",
                      "endif") >>)

styleset_python(st, env) ==
    LET ft_id == GEANY_FILETYPES_PYTHON
        st1 == styleset_common(st, env, 5, ft_id)
        st2 == apply_filetype_properties(st1, env, "SCLEX_PYTHON", ft_id)
    IN Send(st2, env,
         << MSG("SCI_SETKEYWORDS", 0, KeywordAt(st, GEANY_FILETYPES_PYTHON, 0)),
            MSG("SCI_SETKEYWORDS", 1, KeywordAt(st, GEANY_FILETYPES_PYTHON, 1)),
            STY("STYLE_DEFAULT", GEANY_FILETYPES_PYTHON, 0),
            STY("SCE_P_DEFAULT", GEANY_FILETYPES_PYTHON, 0),
            STY("SCE_P_COMMENTLINE", GEANY_FILETYPES_PYTHON, 1),
            STY("SCE_P_NUMBER", GEANY_FILETYPES_PYTHON, 2),
            STY("SCE_P_STRING", GEANY_FILETYPES_PYTHON, 3),
            STY("SCE_P_CHARACTER", GEANY_FILETYPES_PYTHON, 4),
            STY("SCE_P_WORD", GEANY_FILETYPES_PYTHON, 5),
            STY("SCE_P_TRIPLE", GEANY_FILETYPES_PYTHON, 6),
            STY("SCE_P_TRIPLEDOUBLE", GEANY_FILETYPES_PYTHON, 7),
            STY("SCE_P_CLASSNAME", GEANY_FILETYPES_PYTHON, 8),
            STY("SCE_P_DEFNAME", GEANY_FILETYPES_PYTHON, 9),
            STY("SCE_P_OPERATOR", GEANY_FILETYPES_PYTHON, 10),
            STY("SCE_P_IDENTIFIER", GEANY_FILETYPES_PYTHON, 11),
            STY("SCE_P_COMMENTBLOCK", GEANY_FILETYPES_PYTHON, 12),
            STY("SCE_P_STRINGEOL", GEANY_FILETYPES_PYTHON, 13),
            STY("SCE_P_WORD2", GEANY_FILETYPES_PYTHON, 14),
            STY("SCE_P_DECORATOR", GEANY_FILETYPES_PYTHON, 15),
            MSG("SCI_SETPROPERTY", "fold.comment.python", "1"),
            MSG("SCI_SETPROPERTY", "fold.quotes.python", "1") >>)

\* the messages of styleset_markup, once the style sets it uses are loaded
styleset_markup_styles(st, env, set_keywords) ==
       Send(st, env,
            (IF set_keywords
             THEN << MSG("SCI_SETKEYWORDS", 0, KeywordAt(st, GEANY_FILETYPES_XML, 0)),
                     MSG("SCI_SETKEYWORDS", 1, KeywordAt(st, GEANY_FILETYPES_XML, 1)),
                     MSG("SCI_SETKEYWORDS", 2, KeywordAt(st, GEANY_FILETYPES_XML, 2)),
                     MSG("SCI_SETKEYWORDS", 3, KeywordAt(st, GEANY_FILETYPES_XML, 3)),
                     MSG("SCI_SETKEYWORDS", 4, KeywordAt(st, GEANY_FILETYPES_XML, 4)) >>
             ELSE << >>)
         \o << MSG("SCI_SETKEYWORDS", 5, KeywordAt(st, GEANY_FILETYPES_XML, 5)) >>
         \o
         << MSG("SCI_SETHOTSPOTACTIVEFORE", 1, invert(st, \hff0000)),
            MSG("SCI_SETHOTSPOTACTIVEUNDERLINE", 1, 0),
            MSG("SCI_SETHOTSPOTSINGLELINE", 1, 0),
            MSG("SCI_STYLESETHOTSPOT", "SCE_H_QUESTION", 1),
            STY("STYLE_DEFAULT", GEANY_FILETYPES_XML, 0),
            STY("SCE_H_DEFAULT", GEANY_FILETYPES_XML, 0),
            STY("SCE_H_TAG", GEANY_FILETYPES_XML, 1),
            STY("SCE_H_TAGUNKNOWN", GEANY_FILETYPES_XML, 2),
            STY("SCE_H_ATTRIBUTE", GEANY_FILETYPES_XML, 3),
            STY("SCE_H_ATTRIBUTEUNKNOWN", GEANY_FILETYPES_XML, 4),
            STY("SCE_H_NUMBER", GEANY_FILETYPES_XML, 5),
            STY("SCE_H_DOUBLESTRING", GEANY_FILETYPES_XML, 6),
            STY("SCE_H_SINGLESTRING", GEANY_FILETYPES_XML, 7),
            STY("SCE_H_OTHER", GEANY_FILETYPES_XML, 8),
            STY("SCE_H_COMMENT", GEANY_FILETYPES_XML, 9),
            STY("SCE_H_ENTITY", GEANY_FILETYPES_XML, 10),
            STY("SCE_H_TAGEND", GEANY_FILETYPES_XML, 11),
            MSG("SCI_STYLESETEOLFILLED", "SCE_H_XMLSTART", 1),
            STY("SCE_H_XMLSTART", GEANY_FILETYPES_XML, 12),
            STY("SCE_H_XMLEND", GEANY_FILETYPES_XML, 13),
            STY("SCE_H_SCRIPT", GEANY_FILETYPES_XML, 14),
            MSG("SCI_STYLESETEOLFILLED", "SCE_H_ASP", 1),
            STY("SCE_H_ASP", GEANY_FILETYPES_XML, 15),
            MSG("SCI_STYLESETEOLFILLED", "SCE_H_ASPAT", 1),
            STY("SCE_H_ASPAT", GEANY_FILETYPES_XML, 16),
            STY("SCE_H_CDATA", GEANY_FILETYPES_XML, 17),
            STY("SCE_H_QUESTION", GEANY_FILETYPES_XML, 18),
            STY("SCE_H_VALUE", GEANY_FILETYPES_XML, 19),
            STY("SCE_H_XCCOMMENT", GEANY_FILETYPES_XML, 20),
            STY("SCE_H_SGML_DEFAULT", GEANY_FILETYPES_XML, 21),
            STY("SCE_H_SGML_COMMENT", GEANY_FILETYPES_XML, 22),
            STY("SCE_H_SGML_SPECIAL", GEANY_FILETYPES_XML, 23),
            STY("SCE_H_SGML_COMMAND", GEANY_FILETYPES_XML, 24),
            STY("SCE_H_SGML_DOUBLESTRING", GEANY_FILETYPES_XML, 25),
            STY("SCE_H_SGML_SIMPLESTRING", GEANY_FILETYPES_XML, 26),
            STY("SCE_H_SGML_1ST_PARAM", GEANY_FILETYPES_XML, 27),
            STY("SCE_H_SGML_ENTITY", GEANY_FILETYPES_XML, 28),
            STY("SCE_H_SGML_BLOCK_DEFAULT", GEANY_FILETYPES_XML, 29),
            STY("SCE_H_SGML_1ST_PARAM_COMMENT", GEANY_FILETYPES_XML, 30),
            STY("SCE_H_SGML_ERROR", GEANY_FILETYPES_XML, 31),
            STY("SCE_HJ_START", GEANY_FILETYPES_XML, 43),
            STY("SCE_HJ_DEFAULT", GEANY_FILETYPES_XML, 44),
            STY("SCE_HJ_COMMENT", GEANY_FILETYPES_XML, 45),
            STY("SCE_HJ_COMMENTLINE", GEANY_FILETYPES_XML, 46),
            STY("SCE_HJ_COMMENTDOC", GEANY_FILETYPES_XML, 47),
            STY("SCE_HJ_NUMBER", GEANY_FILETYPES_XML, 48),
            STY("SCE_HJ_WORD", GEANY_FILETYPES_XML, 49),
            STY("SCE_HJ_KEYWORD", GEANY_FILETYPES_XML, 50),
            STY("SCE_HJ_DOUBLESTRING", GEANY_FILETYPES_XML, 51),
            STY("SCE_HJ_SINGLESTRING", GEANY_FILETYPES_XML, 52),
            STY("SCE_HJ_SYMBOLS", GEANY_FILETYPES_XML, 53),
            STY("SCE_HJ_STRINGEOL", GEANY_FILETYPES_XML, 54),
            STY("SCE_HB_START", GEANY_FILETYPES_XML, 43),
            STY("SCE_HB_DEFAULT", GEANY_FILETYPES_XML, 44),
            STY("SCE_HB_COMMENTLINE", GEANY_FILETYPES_XML, 46),
            STY("SCE_HB_NUMBER", GEANY_FILETYPES_XML, 48),
            STY("SCE_HB_WORD", GEANY_FILETYPES_XML, 49),
            STY("SCE_HB_STRING", GEANY_FILETYPES_XML, 51),
            STY("SCE_HB_IDENTIFIER", GEANY_FILETYPES_XML, 53),
            STY("SCE_HB_STRINGEOL", GEANY_FILETYPES_XML, 54),
            STY("SCE_HBA_START", GEANY_FILETYPES_XML, 43),
            STY("SCE_HBA_DEFAULT", GEANY_FILETYPES_XML, 44),
            STY("SCE_HBA_COMMENTLINE", GEANY_FILETYPES_XML, 46),
            STY("SCE_HBA_NUMBER", GEANY_FILETYPES_XML, 48),
            STY("SCE_HBA_WORD", GEANY_FILETYPES_XML, 49),
            STY("SCE_HBA_STRING", GEANY_FILETYPES_XML, 51),
            STY("SCE_HBA_IDENTIFIER", GEANY_FILETYPES_XML, 53),
            STY("SCE_HBA_STRINGEOL", GEANY_FILETYPES_XML, 54),
            STY("SCE_HJA_START", GEANY_FILETYPES_XML, 43),
            STY("SCE_HJA_DEFAULT", GEANY_FILETYPES_XML, 44),
            STY("SCE_HJA_COMMENT", GEANY_FILETYPES_XML, 45),
            STY("SCE_HJA_COMMENTLINE", GEANY_FILETYPES_XML, 46),
            STY("SCE_HJA_COMMENTDOC", GEANY_FILETYPES_XML, 47),
            STY("SCE_HJA_NUMBER", GEANY_FILETYPES_XML, 48),
            STY("SCE_HJA_WORD", GEANY_FILETYPES_XML, 49),
            STY("SCE_HJA_KEYWORD", GEANY_FILETYPES_XML, 50),
            STY("SCE_HJA_DOUBLESTRING", GEANY_FILETYPES_XML, 51),
            STY("SCE_HJA_SINGLESTRING", GEANY_FILETYPES_XML, 52),
            STY("SCE_HJA_SYMBOLS", GEANY_FILETYPES_XML, 53),
            STY("SCE_HJA_STRINGEOL", GEANY_FILETYPES_XML, 54),
            STY("SCE_HP_START", GEANY_FILETYPES_XML, 43),
            STY("SCE_HP_DEFAULT", GEANY_FILETYPES_PYTHON, 0),
            STY("SCE_HP_COMMENTLINE", GEANY_FILETYPES_PYTHON, 1),
            STY("SCE_HP_NUMBER", GEANY_FILETYPES_PYTHON, 2),
            STY("SCE_HP_STRING", GEANY_FILETYPES_PYTHON, 3),
            STY("SCE_HP_CHARACTER", GEANY_FILETYPES_PYTHON, 4),
            STY("SCE_HP_WORD", GEANY_FILETYPES_PYTHON, 5),
            STY("SCE_HP_TRIPLE", GEANY_FILETYPES_PYTHON, 6),
            STY("SCE_HP_TRIPLEDOUBLE", GEANY_FILETYPES_PYTHON, 7),
            STY("SCE_HP_CLASSNAME", GEANY_FILETYPES_PYTHON, 8),
            STY("SCE_HP_DEFNAME", GEANY_FILETYPES_PYTHON, 9),
            STY("SCE_HP_OPERATOR", GEANY_FILETYPES_PYTHON, 10),
            STY("SCE_HP_IDENTIFIER", GEANY_FILETYPES_PYTHON, 11),
            STY("SCE_HPA_START", GEANY_FILETYPES_XML, 43),
            STY("SCE_HPA_DEFAULT", GEANY_FILETYPES_PYTHON, 0),
            STY("SCE_HPA_COMMENTLINE", GEANY_FILETYPES_PYTHON, 1),
            STY("SCE_HPA_NUMBER", GEANY_FILETYPES_PYTHON, 2),
            STY("SCE_HPA_STRING", GEANY_FILETYPES_PYTHON, 3),
            STY("SCE_HPA_CHARACTER", GEANY_FILETYPES_PYTHON, 4),
            STY("SCE_HPA_WORD", GEANY_FILETYPES_PYTHON, 5),
            STY("SCE_HPA_TRIPLE", GEANY_FILETYPES_PYTHON, 6),
            STY("SCE_HPA_TRIPLEDOUBLE", GEANY_FILETYPES_PYTHON, 7),
            STY("SCE_HPA_CLASSNAME", GEANY_FILETYPES_PYTHON, 8),
            STY("SCE_HPA_DEFNAME", GEANY_FILETYPES_PYTHON, 9),
            STY("SCE_HPA_OPERATOR", GEANY_FILETYPES_PYTHON, 10),
            STY("SCE_HPA_IDENTIFIER", GEANY_FILETYPES_PYTHON, 11),
            STY("SCE_HPHP_DEFAULT", GEANY_FILETYPES_XML, 32),
            STY("SCE_HPHP_SIMPLESTRING", GEANY_FILETYPES_XML, 33),
            STY("SCE_HPHP_HSTRING", GEANY_FILETYPES_XML, 34),
            STY("SCE_HPHP_NUMBER", GEANY_FILETYPES_XML, 35),
            STY("SCE_HPHP_WORD", GEANY_FILETYPES_XML, 36),
            STY("SCE_HPHP_VARIABLE", GEANY_FILETYPES_XML, 37),
            STY("SCE_HPHP_COMMENT", GEANY_FILETYPES_XML, 38),
            STY("SCE_HPHP_COMMENTLINE", GEANY_FILETYPES_XML, 39),
            STY("SCE_HPHP_OPERATOR", GEANY_FILETYPES_XML, 40),
            STY("SCE_HPHP_HSTRING_VARIABLE", GEANY_FILETYPES_XML, 41),
            STY("SCE_HPHP_COMPLEX_VARIABLE", GEANY_FILETYPES_XML, 42),
            MSG("SCI_SETPROPERTY", "fold.html", "1"),
            MSG("SCI_SETPROPERTY", "fold.html.preprocessor", "1") >>)

\* the optional load of a style set: ft_id is loaded when needed holds
load_config_if(needed, st, ft_id, env) ==
    IF needed THEN filetypes_load_config(st, ft_id, env) ELSE st

\* Used by several filetypes
styleset_markup(st, env, set_keywords) ==
    LET st1 == load_config_if(st.style_sets[GEANY_FILETYPES_XML].styling.ptr = "NULL",
                              st, GEANY_FILETYPES_XML, env)
        st2 == filetypes_load_config(st1, GEANY_FILETYPES_PYTHON, env)
    IN styleset_markup_styles(st2, env, set_keywords)

styleset_php(st, env) ==
    LET ft_id == GEANY_FILETYPES_PHP
        st1 == styleset_common(st, env, 7, ft_id)
        st2 == apply_filetype_properties(st1, env, "SCLEX_HTML", ft_id)
        st3 == Log(st2, "msg", "SCI_SETPROPERTY", "phpscript.mode", "1")
    IN styleset_markup(st3, env, TRUE)

styleset_html(st, env) ==
    LET ft_id == GEANY_FILETYPES_HTML
        st1 == styleset_common(st, env, 7, ft_id)
        st2 == apply_filetype_properties(st1, env, "SCLEX_HTML", ft_id)
    IN styleset_markup(st2, env, TRUE)

styleset_xml(st, env) ==
    LET ft_id == GEANY_FILETYPES_XML
        st1 == styleset_common(st, env, 7, ft_id)
        st2 == apply_filetype_properties(st1, env, "SCLEX_XML", ft_id)
    IN styleset_markup(st2, env, FALSE)

styleset_none(st, env) ==
    LET ft_id == GEANY_FILETYPES_NONE
        st1 == Log(st, "msg", "SCI_SETLEXER", "SCLEX_NULL", 0)
        st2 == set_sci_style(st1, env, "STYLE_DEFAULT", GEANY_FILETYPES_NONE, "GCS_DEFAULT")
        st3 == styleset_common(st2, env, 5, ft_id)
    IN Send(st3, env,
            << MSG("SCI_SETWORDCHARS", 0, st.common_style_set.wordchars),
               MSG("SCI_SETWHITESPACECHARS", 0, st.whitespace_chars) >>)

(***************************************************************************)
(* The interface.                                                          *)
(***************************************************************************)
\* the styleset handler a case of the switch calls
StylesetHandler(handler, st, env) ==
    CASE handler = "c" -> styleset_c(st, env)
      [] handler = "html" -> styleset_html(st, env)
      [] handler = "php" -> styleset_php(st, env)
      [] handler = "python" -> styleset_python(st, env)
      [] handler = "xml" -> styleset_xml(st, env)
      [] OTHER -> styleset_none(st, env)

\* the switch of highlighting_set_styles with its default label on the case
\* of GEANY_FILETYPES_C
StylesetCase_DefaultC(filetype_idx) ==
    CASE filetype_idx = GEANY_FILETYPES_HTML -> "html"
      [] filetype_idx = GEANY_FILETYPES_PHP -> "php"
      [] filetype_idx = GEANY_FILETYPES_PYTHON -> "python"
      [] filetype_idx = GEANY_FILETYPES_XML -> "xml"
      [] filetype_idx = GEANY_FILETYPES_NONE -> "none"
      [] OTHER -> "c"

\* the styleset handler of the switch of highlighting_set_styles
StylesetCase(filetype_idx) ==
    CASE filetype_idx = GEANY_FILETYPES_C -> "c"
      [] filetype_idx = GEANY_FILETYPES_HTML -> "html"
      [] filetype_idx = GEANY_FILETYPES_PHP -> "php"
      [] filetype_idx = GEANY_FILETYPES_PYTHON -> "python"
      [] filetype_idx = GEANY_FILETYPES_XML -> "xml"
      [] OTHER -> "none"

\* The trace gets a "styleset" event when a case of the switch runs its
\* handler.
highlighting_set_styles(st, env, filetype_idx) ==
    LET st1 == filetypes_load_config(st, filetype_idx, env)
        st2 == LogIf(filetype_idx < GEANY_FILETYPES_NONE, st1,
                     "symbols_global_tags_loaded", "", filetype_idx, 0)
        st3 == Log(st2, "styleset", "", StylesetCase(filetype_idx), 0)
    IN StylesetHandler(StylesetCase(filetype_idx), st3, env)

\* a HighlightingStyle pointer: ptr names the object it points into ("NULL"
\* for the null pointer), entries the number of records of that object
NullPtr == [ptr |-> "NULL", index |-> 0, entries |-> 0]

\* &styling[style_id]
EntryPtr(styling, style_id) ==
    IF styling.ptr = "NULL" /\ style_id = 0 THEN NullPtr
    ELSE [ptr |-> IF styling.ptr = "NULL" THEN "NULL+offset" ELSE styling.ptr,
          index |-> style_id, entries |-> Len(styling.arr)]

\* style_sets[ft_id].styling; env.wild_styling is what the read finds when
\* ft_id is no index of style_sets
StylingOf(st, env, ft_id) ==
    IF ft_id \in StyleSetIds THEN st.style_sets[ft_id].styling ELSE env.wild_styling

\* the state st, and the pointer &style_sets[ft_id].styling[style_id] in it
StyleAddress(st, env, ft_id, style_id) ==
    [st |-> st, value |-> EntryPtr(StylingOf(st, env, ft_id), style_id)]

\* highlighting_get_style with the upper end of its range check missing
highlighting_get_style_NoUpperCheck(st, env, ft_id, style_id) ==
    IF ft_id < 0
    THEN [st |-> st, value |-> NullPtr]
    ELSE LET st0 == IF ft_id \in StyleSetIds THEN st
                    ELSE Fault(st, "read outside style_sets")
             st1 == load_config_if(StylingOf(st0, env, ft_id).ptr = "NULL",
                                   st0, ft_id, env)
         IN StyleAddress(st1, env, ft_id, style_id)

\* the state highlighting_get_style leaves and the pointer it returns
highlighting_get_style(st, env, ft_id, style_id) ==
    IF ft_id < 0 \/ ft_id > GEANY_MAX_BUILT_IN_FILETYPES
    THEN [st |-> st, value |-> NullPtr]
    ELSE LET st0 == IF ft_id \in StyleSetIds THEN st
                    ELSE Fault(st, "read outside style_sets")
             st1 == load_config_if(StylingOf(st0, env, ft_id).ptr = "NULL",
                                   st0, ft_id, env)
         IN StyleAddress(st1, env, ft_id, style_id)

(***************************************************************************)
(* The environment: key files, and what the memory outside the program's   *)
(* objects holds.                                                          *)
(***************************************************************************)
\* a key file without groups
KF_empty == KeyFile([k \in {} |-> NullArr], NullArr, [k \in {} |-> NULL], NULL)

\* a system configuration file
KF_system ==
    KeyFile(<<"styling", "default">> :> HeapArr(<<"0x112233", "0x445566", "true", "false">>)
            @@ <<"styling", "html_default">> :>
                   HeapArr(<<"0x112233", "0x445566", "true", "false">>)
            @@ <<"styling", "selection">> :>
                   HeapArr(<<"0xc0c0c0", "0x7f0000", "true", "true">>)
            @@ <<"styling", "folding_style">> :> HeapArr(<<"2", "2">>)
            @@ <<"styling", "invert_all">> :> HeapArr(<<"0">>)
            @@ <<"styling", "styling_within_preprocessor">> :> HeapArr(<<"1", "0">>),
            NullArr,
            <<"settings", "wordchars">> :> "system_wordchars"
            @@ <<"settings", "whitespace_chars">> :> "system_whitespace_chars"
            @@ <<"keywords", "primary">> :> "system_primary",
            NULL)

\* a user configuration file; its comment style is a list of one field
KF_user ==
    KeyFile(<<"styling", "default">> :> HeapArr(<<"0xaabbcc", "0x001122", "false", "true">>)
            @@ <<"styling", "comment">> :> HeapArr(<<"0xaabbcc">>)
            @@ <<"styling", "caret">> :> HeapArr(<<"0x001122", "0x000000", "true", "false">>)
            @@ <<"styling", "invert_all">> :> HeapArr(<<"1">>)
            @@ <<"styling", "folding_horiz_line">> :> HeapArr(<<"1", "0">>),
            NullArr,
            <<"settings", "wordchars">> :> "user_wordchars"
            @@ <<"keywords", "primary">> :> "user_primary",
            NULL)

FilePair(config, configh) == [config |-> config, configh |-> configh]

\* the files filetypes_load_config can find: filetypes.common and
\* filetypes.<ext>, each in the system and in the user directory
Disks ==
    { [common |-> FilePair(KF_system, KF_empty), ext |-> FilePair(KF_system, KF_user)],
      [common |-> FilePair(KF_system, KF_user), ext |-> FilePair(KF_empty, KF_empty)],
      [common |-> FilePair(KF_empty, KF_empty), ext |-> FilePair(KF_empty, KF_user)] }

\* the arguments a caller of highlighting_init_styles passes
InitArgs ==
    { FilePair(NullKeyFile, NullKeyFile), FilePair(KF_system, NullKeyFile),
      FilePair(NullKeyFile, KF_user), FilePair(KF_user, KF_system) }

\* what a call finds in memory it does not own: oob behind the end of a
\* string list, junk_str in a fresh g_new(gchar*, n), tmp_style in the
\* local of styleset_common_init, wild_style and wild_styling outside
\* style_sets and the styling arrays; typenames is what
\* get_global_typenames returns
Env(oob, tmp_style, wild_styling, typenames, d) ==
    [oob |-> oob, junk_str |-> "garbage", tmp_style |-> tmp_style,
     wild_style |-> Style(-1, -1, TRUE, TRUE), wild_styling |-> wild_styling,
     typenames |-> typenames, disk |-> d]

Garbage == {NULL, "garbage"}

GarbageStyle == {ZeroStyle, Style(-1, 3, TRUE, TRUE)}

GarbageStyling == {NullArr, [ptr |-> "wild", arr |-> <<>>]}

(***************************************************************************)
(* The state machine: each action is one call of the interface.            *)
(***************************************************************************)
\* the filetype_idx and ft_id callers pass: the filetypes, and the values
\* next to them
FtArgs == (-1)..(GEANY_MAX_BUILT_IN_FILETYPES + 1)

\* the style_id callers pass
StyleIds == {0, 21}

\* the number of calls of the interface in a behaviour
MaxCalls == 2

NoGetter == [getter |-> "none"]

Init ==
    /\ style_sets = style_sets_init
    /\ common_style_set = common_style_set_init
    /\ whitespace_chars = NULL
    /\ common_style_set_valid = FALSE
    /\ keyfile_loaded = [ft \in 0..(GEANY_MAX_BUILT_IN_FILETYPES - 1) |-> FALSE]
    /\ disk \in Disks
    /\ trace = <<>>
    /\ faults = {}
    /\ ret = [call |-> "none"]
    /\ calls = 0
    /\ getter_args = NoGetter
    /\ getter_result = NoGetter

\* the program state st after a call
Becomes(st) ==
    /\ style_sets' = st.style_sets
    /\ common_style_set' = st.common_style_set
    /\ whitespace_chars' = st.whitespace_chars
    /\ common_style_set_valid' = st.common_style_set_valid
    /\ keyfile_loaded' = st.keyfile_loaded
    /\ trace' = st.trace
    /\ faults' = st.faults
    /\ calls' = calls + 1
    /\ UNCHANGED <<disk, getter_args, getter_result>>

GetStyle ==
    /\ calls < MaxCalls
    /\ \E ft_id \in FtArgs, style_id \in StyleIds, oob \in Garbage,
          wild_styling \in GarbageStyling :
        \E r \in {highlighting_get_style(Cur, Env(oob, ZeroStyle, wild_styling, NULL, disk),
                                          ft_id, style_id)} :
           /\ Becomes(r.st)
           /\ ret' = [call |-> "highlighting_get_style", ft_id |-> ft_id,
                      style_id |-> style_id, value |-> r.value]

SetStyles ==
    /\ calls < MaxCalls
    /\ \E filetype_idx \in FtArgs, oob \in Garbage, typenames \in {NULL, "size_t"} :
        LET env == Env(oob, ZeroStyle, NullArr, typenames, disk)
        IN /\ Becomes(highlighting_set_styles(Cur, env, filetype_idx))
           /\ ret' = [call |-> "highlighting_set_styles", filetype_idx |-> filetype_idx]

InitStyles ==
    /\ calls < MaxCalls
    /\ \E filetype_idx \in 0..(GEANY_MAX_BUILT_IN_FILETYPES - 1), args \in InitArgs,
          oob \in Garbage, tmp_style \in GarbageStyle :
        LET env == Env(oob, tmp_style, NullArr, NULL, disk)
        IN /\ Becomes(highlighting_init_styles(Cur, filetype_idx, args.config,
                                               args.configh, env))
           /\ ret' = [call |-> "highlighting_init_styles", filetype_idx |-> filetype_idx,
                      config |-> args.config, configh |-> args.configh]

Next == GetStyle \/ SetStyles \/ InitStyles

Spec == Init /\ [][Next]_vars

\* highlighting_free_styles(), which the program calls when it shuts down;
\* it takes no arguments and sends no message
FreeStyles ==
    \E st \in {highlighting_free_styles(Cur)} :
       /\ style_sets' = st.style_sets
       /\ faults' = st.faults
       /\ trace' = st.trace
       /\ ret' = [call |-> "highlighting_free_styles"]
       /\ UNCHANGED <<common_style_set, whitespace_chars, common_style_set_valid,
                      keyfile_loaded, disk, calls, getter_args, getter_result>>

\* the interface with highlighting_free_styles, called at any time
NextFree == Next \/ FreeStyles

SpecFree == Init /\ [][NextFree]_vars

(***************************************************************************)
(* The getters on their own: a caller's arguments are drawn at the start,  *)
(* each action applies one getter to them.                                 *)
(***************************************************************************)
\* the number of fields of a list in a key file of the getters' callers
MaxListLen == 4

\* the fields of a style list, of a list of numbers, and of a damaged list
FieldPool ==
    [style |-> <<"0xaabbcc", "0x001122", "true", "false">>,
     number |-> <<"2", "3", "1", "0">>,
     damaged |-> <<"junk", "0x112233", "TRUE", "yes">>]

\* the list of n fields of a kind
ListOf(kind, n) ==
    HeapArr([i \in 1..n |-> FieldPool[kind][((i - 1) % Len(FieldPool[kind])) + 1]])

\* a key file whose every key holds list and str (NULL: the key is missing)
KF_every(list, str) == KeyFile([k \in {} |-> NullArr], list, [k \in {} |-> NULL], str)

SystemFiles ==
    {NullKeyFile}
    \cup {KF_every(list, str) :
            list \in {NullArr, ListOf("number", MaxListLen), ListOf("damaged", 1)},
            str \in {NULL, "system"}}

UserFiles ==
    {NullKeyFile}
    \cup {KF_every(list, str) :
            list \in {NullArr} \cup {ListOf(kind, n) : kind \in {"style", "number"},
                                                      n \in 0..MaxListLen},
            str \in {NULL, "", "user"}}

\* the caller's arguments; style is what *style holds before the call
GetterArgs ==
    [config : SystemFiles, configh : UserFiles, oob : Garbage,
     default_value : {"default_value"},
     default_style : {gsd_comment_doc},
     style : {Style(7, 7, TRUE, TRUE)}]

InitGetters ==
    /\ style_sets = style_sets_init
    /\ common_style_set = common_style_set_init
    /\ whitespace_chars = NULL
    /\ common_style_set_valid = FALSE
    /\ keyfile_loaded = [ft \in 0..(GEANY_MAX_BUILT_IN_FILETYPES - 1) |-> FALSE]
    /\ disk = CHOOSE d \in Disks : TRUE
    /\ trace = <<>>
    /\ faults = {}
    /\ ret = [call |-> "none"]
    /\ calls = 0
    /\ getter_args \in GetterArgs
    /\ getter_result = NoGetter

Returns(getter, result) ==
    /\ getter_result' = [getter |-> getter, result |-> result]
    /\ UNCHANGED <<style_sets, common_style_set, whitespace_chars, common_style_set_valid,
                   keyfile_loaded, disk, trace, faults, ret, calls, getter_args>>

GetKeyfileKeywords ==
    Returns("get_keyfile_keywords",
            get_keyfile_keywords_result(getter_args.config, getter_args.configh,
                                        "keywords", "primary", getter_args.default_value))

GetKeyfileWordchars ==
    Returns("get_keyfile_wordchars",
            get_keyfile_wordchars(getter_args.config, getter_args.configh))

GetKeyfileWhitespaceChars ==
    Returns("get_keyfile_whitespace_chars",
            get_keyfile_whitespace_chars(getter_args.config, getter_args.configh))

GetKeyfileStyle ==
    Returns("get_keyfile_style",
            get_keyfile_style(getter_args.config, getter_args.configh, "comment",
                              getter_args.default_style, getter_args.style,
                              getter_args.oob))

GetKeyfileHex ==
    Returns("get_keyfile_hex",
            get_keyfile_hex(getter_args.config, getter_args.configh, "styling", "default",
                            "0x112233", "0xffffff", "true", getter_args.style,
                            getter_args.oob))

\* get_keyfile_hex without default colours
GetKeyfileHexNullColours ==
    Returns("get_keyfile_hex, NULL colours",
            get_keyfile_hex(getter_args.config, getter_args.configh, "styling", "default",
                            NULL, NULL, "true", getter_args.style, getter_args.oob))

GetKeyfileInt ==
    Returns("get_keyfile_int",
            get_keyfile_int(getter_args.config, getter_args.configh, "styling",
                            "folding_style", 1, 256, getter_args.style, getter_args.oob))

NextGetters ==
    \/ GetKeyfileKeywords
    \/ GetKeyfileWordchars
    \/ GetKeyfileWhitespaceChars
    \/ GetKeyfileStyle
    \/ GetKeyfileHex
    \/ GetKeyfileHexNullColours
    \/ GetKeyfileInt

SpecGetters == InitGetters /\ [][NextGetters]_vars

(***************************************************************************)
(* The colour functions on their own: a state holds the argument of one    *)
(* call and the value of invert_all, and what the call returned.           *)
(***************************************************************************)
\* the values of a colour's red, green and blue bytes
ColourBytes == {0, 1, 127, 128, 255}

\* the colours 0xBBGGRR of these bytes, and two words that are no colours
Colours ==
    {r + 256 * g + 65536 * b : r \in ColourBytes, g \in ColourBytes, b \in ColourBytes}
    \cup {-1, 16777216}

InitColours ==
    /\ style_sets = style_sets_init
    /\ \E invert_all \in {0, 1} :
          common_style_set = [common_style_set_init EXCEPT !.invert_all = invert_all]
    /\ whitespace_chars = NULL
    /\ common_style_set_valid = TRUE
    /\ keyfile_loaded = [ft \in 0..(GEANY_MAX_BUILT_IN_FILETYPES - 1) |-> FALSE]
    /\ disk = CHOOSE d \in Disks : TRUE
    /\ trace = <<>>
    /\ faults = {}
    /\ ret = [call |-> "none"]
    /\ calls = 0
    /\ getter_args \in [colour : Colours]
    /\ getter_result = NoGetter

Invert == Returns("invert", invert(Cur, getter_args.colour))

RotateRgb == Returns("rotate_rgb", rotate_rgb(getter_args.colour))

NextColours == Invert \/ RotateRgb

SpecColours == InitColours /\ [][NextColours]_vars

(***************************************************************************)
(* C1: when both sources are present and the user configuration has the   *)
(* key, every getter's result is taken from the user configuration: it is  *)
(* the user's string, or built from the user's list, and it is the result  *)
(* the getter gives with an empty system configuration in place of the     *)
(* caller's.                                                               *)
(***************************************************************************)
BothPresent == getter_args.config.ptr # "NULL" /\ getter_args.configh.ptr # "NULL"

UserString == getter_args.configh.other_str

UserList == getter_args.configh.other_list

StringGetters ==
    {"get_keyfile_keywords", "get_keyfile_wordchars", "get_keyfile_whitespace_chars"}

\* the result of the getter called g with the system configuration config
ResultWith(g, config) ==
    CASE g = "get_keyfile_style" ->
            get_keyfile_style(config, getter_args.configh, "comment",
                              getter_args.default_style, getter_args.style,
                              getter_args.oob)
      [] g = "get_keyfile_hex" ->
            get_keyfile_hex(config, getter_args.configh, "styling", "default",
                            "0x112233", "0xffffff", "true", getter_args.style,
                            getter_args.oob)
      [] g = "get_keyfile_int" ->
            get_keyfile_int(config, getter_args.configh, "styling", "folding_style",
                            1, 256, getter_args.style, getter_args.oob)

C1_UserConfigurationWins ==
    /\ (getter_result.getter \in StringGetters /\ BothPresent /\ UserString # NULL)
          => getter_result.result = UserString
    /\ (getter_result.getter \in {"get_keyfile_style", "get_keyfile_hex", "get_keyfile_int"}
        /\ BothPresent /\ UserList.ptr # "NULL")
          => /\ getter_result.result = ResultWith(getter_result.getter, KF_empty)
             /\ (getter_result.getter # "get_keyfile_int" /\ Len(UserList.arr) >= 1)
                   => getter_result.result.foreground = utils_strtod(UserList.arr[1])
             /\ (getter_result.getter = "get_keyfile_int" /\ Len(UserList.arr) >= 1
                 /\ strtol_converts(UserList.arr[1]))
                   => getter_result.result.foreground = strtol(UserList.arr[1])

\* a getter has answered from the user's list although the system
\* configuration holds another list for the key
C1_Witness ==
    /\ getter_result.getter = "get_keyfile_hex"
    /\ BothPresent
    /\ UserList.ptr # "NULL" /\ Len(UserList.arr) = MaxListLen
    /\ getter_args.config.other_list.ptr # "NULL"
    /\ getter_args.config.other_list # UserList
    /\ getter_result.result.foreground = utils_strtod(UserList.arr[1])

(***************************************************************************)
(* C2: when the key is in neither source, or a source is NULL,             *)
(* get_keyfile_keywords stores the caller's default_value,                 *)
(* get_keyfile_wordchars stores GEANY_WORDCHARS and                        *)
(* get_keyfile_whitespace_chars returns GEANY_WHITESPACE_CHARS; the string *)
(* is never NULL.                                                          *)
(***************************************************************************)
KeyInNeither ==
    BothPresent /\ UserString = NULL /\ getter_args.config.other_str = NULL

DefaultOf(g) ==
    CASE g = "get_keyfile_keywords" -> getter_args.default_value
      [] g = "get_keyfile_wordchars" -> GEANY_WORDCHARS
      [] g = "get_keyfile_whitespace_chars" -> GEANY_WHITESPACE_CHARS

ConfiguredList(config, configh, section, key) ==
    IF config.ptr = "NULL" \/ configh.ptr = "NULL" THEN NullArr
    ELSE LayeredList(config, configh, section, key)

MissingOrComplete(list) == list.ptr = "NULL" \/ Len(list.arr) >= 4

\* the configured value of a field, or its default
ConfiguredOr(list, i, convert(_), default) ==
    IF list.ptr # "NULL" /\ Len(list.arr) >= i THEN convert(list.arr[i]) ELSE default

\* what C3 says a get_keyfile_style entry holds
ClaimedStyle(config, configh, key_name, default_style) ==
    LET list == ConfiguredList(config, configh, "styling", key_name)
    IN [foreground |-> ConfiguredOr(list, 1, utils_strtod,
                                    rotate_rgb(default_style.foreground)),
        background |-> ConfiguredOr(list, 2, utils_strtod,
                                    rotate_rgb(default_style.background)),
        bold |-> ConfiguredOr(list, 3, utils_atob, default_style.bold),
        italic |-> ConfiguredOr(list, 4, utils_atob, default_style.italic)]

\* what C3 says a get_keyfile_hex entry holds
ClaimedHex(config, configh, key, foreground, background, bold) ==
    LET list == ConfiguredList(config, configh, "styling", key)
    IN [foreground |-> ConfiguredOr(list, 1, utils_strtod, utils_strtod(foreground)),
        background |-> ConfiguredOr(list, 2, utils_strtod, utils_strtod(background)),
        bold |-> ConfiguredOr(list, 3, utils_atob, utils_atob(bold)),
        italic |-> ConfiguredOr(list, 4, utils_atob, FALSE)]

\* the first call of a behaviour was highlighting_init_styles
FirstInit(filetype_idx) ==
    /\ calls = 1
    /\ ret.call = "highlighting_init_styles"
    /\ ret.filetype_idx = filetype_idx

C3_InitEntriesConfiguredOrDefault ==
    /\ FirstInit(GEANY_FILETYPES_C) =>
          \A i \in 1..20 :
             MissingOrComplete(ConfiguredList(ret.config, ret.configh, "styling",
                                              c_like_entries[i].name))
                => style_sets[GEANY_FILETYPES_C].styling.arr[i] =
                      ClaimedStyle(ret.config, ret.configh, c_like_entries[i].name,
                                   c_like_entries[i].style)
    /\ FirstInit(GEANY_FILETYPES_NONE) =>
          /\ \A n \in 1..Len(common_hex_entries) :
                LET e == common_hex_entries[n]
                IN (e.key # "caret"
                    /\ MissingOrComplete(ConfiguredList(ret.config, ret.configh,
                                                        "styling", e.key)))
                      => common_style_set.styling[e.gcs] =
                            ClaimedHex(ret.config, ret.configh, e.key, e.fg, e.bg, e.bold)
          /\ MissingOrComplete(ConfiguredList(ret.config, ret.configh, "styling",
                                              "translucency"))
                => /\ common_style_set.styling["GCS_TRANSLUCENCY"].foreground = 256
                   /\ common_style_set.styling["GCS_TRANSLUCENCY"].background = 256

(***************************************************************************)
(* C4: when highlighting_get_style returns for a built-in filetype, the    *)
(* filetype's styling array is initialised (non-NULL) and the pointer      *)
(* returned for a style_id of the array refers to that entry; also for PHP *)
(* and HTML.                                                               *)
(***************************************************************************)
C4_GetStyleInitialises ==
    (ret.call = "highlighting_get_style" /\ ret.ft_id \in StyleSetIds)
       => /\ style_sets[ret.ft_id].styling.ptr # "NULL"
          /\ ret.style_id < Len(style_sets[ret.ft_id].styling.arr)
                => ret.value = EntryPtr(style_sets[ret.ft_id].styling, ret.style_id)

(***************************************************************************)
(* C5: highlighting_get_style returns NULL for every ft_id < 0 and every   *)
(* ft_id > GEANY_MAX_BUILT_IN_FILETYPES; then it requests no configuration *)
(* load and leaves style_sets unchanged.                                   *)
(***************************************************************************)
OutOfRange(ft_id) == ft_id < 0 \/ ft_id > GEANY_MAX_BUILT_IN_FILETYPES

C5_OutOfRangeReturnsNull ==
    [][(calls' = calls + 1 /\ ret'.call = "highlighting_get_style"
        /\ OutOfRange(ret'.ft_id))
          => /\ ret'.value = NullPtr
             /\ trace' = <<>>
             /\ style_sets' = style_sets
             /\ keyfile_loaded' = keyfile_loaded]_vars

\* highlighting_get_style has returned NULL for an ft_id above the range,
\* after a call that has loaded the style set of C
C5_Witness ==
    /\ calls = 2
    /\ ret.call = "highlighting_get_style"
    /\ ret.ft_id > GEANY_MAX_BUILT_IN_FILETYPES
    /\ ret.value = NullPtr
    /\ style_sets[GEANY_FILETYPES_C].styling.ptr = "heap"

(***************************************************************************)
(* C6: every ft_id that passes the range check of highlighting_get_style   *)
(* is an index of style_sets, and style_id is within the entries allocated *)
(* for the filetype: highlighting_get_style reads neither style_sets nor a *)
(* styling array out of bounds.                                            *)
(***************************************************************************)
C6_GetStyleInBounds ==
    (ret.call = "highlighting_get_style" /\ ~OutOfRange(ret.ft_id))
       => /\ ret.ft_id \in StyleSetIds
          /\ "read outside style_sets" \notin faults
          /\ style_sets[ret.ft_id].styling.ptr # "NULL"
                => ret.style_id < Len(style_sets[ret.ft_id].styling.arr)

(***************************************************************************)
(* C7: whenever highlighting_init_styles runs for a filetype other than    *)
(* GEANY_FILETYPES_NONE, filetypes_load_config(GEANY_FILETYPES_NONE) is    *)
(* requested before the filetype's init handler runs, so in every state in *)
(* which a style set other than None is initialised the common style set   *)
(* is initialised; initialising None does not request the load again.      *)
(***************************************************************************)
IsLoadRequest(e, ft) == e.ev = "filetypes_load_config" /\ e.w = ft

IsInit(e) == e.ev = "init"

\* every init handler stores the wordchars of its style set
Initialised(ft) == style_sets[ft].wordchars # NULL

C7_CommonBeforeFiletype ==
    /\ \A i \in 1..Len(trace) :
          (IsInit(trace[i]) /\ trace[i].w # GEANY_FILETYPES_NONE)
             => \E j \in 1..(i - 1) : IsLoadRequest(trace[j], GEANY_FILETYPES_NONE)
    /\ (\E ft \in StyleSetIds : Initialised(ft))
          => common_style_set_valid /\ common_style_set.wordchars # NULL
    /\ \A i \in 1..(Len(trace) - 1) :
          (IsInit(trace[i]) /\ trace[i].w = GEANY_FILETYPES_NONE)
             => ~IsLoadRequest(trace[i + 1], GEANY_FILETYPES_NONE)
    /\ (ret.call = "highlighting_init_styles"
        /\ ret.filetype_idx = GEANY_FILETYPES_NONE)
          => \A i \in 1..Len(trace) : ~IsLoadRequest(trace[i], GEANY_FILETYPES_NONE)

\* a call of highlighting_init_styles for C, with its own key files, has
\* requested the common configuration, which was loaded and initialised
\* before the init handler of C ran
C7_Witness ==
    /\ calls = 1
    /\ ret.call = "highlighting_init_styles"
    /\ ret.filetype_idx = GEANY_FILETYPES_C
    /\ Len(trace) = 3
    /\ IsLoadRequest(trace[1], GEANY_FILETYPES_NONE)
    /\ IsInit(trace[2]) /\ trace[2].w = GEANY_FILETYPES_NONE
    /\ IsInit(trace[3]) /\ trace[3].w = GEANY_FILETYPES_C
    /\ Initialised(GEANY_FILETYPES_C)
    /\ common_style_set_valid

(***************************************************************************)
(* C8: the common style set is loaded only once: after the first           *)
(* invocation of styleset_common_init, no later invocation, whatever the   *)
(* configuration it is given, changes common_style_set (styles, folding    *)
(* style, invert_all, wordchars) or whitespace_chars.                      *)
(***************************************************************************)
C8_CommonLoadedOnce ==
    [][common_style_set_valid
          => /\ common_style_set' = common_style_set
             /\ whitespace_chars' = whitespace_chars
             /\ common_style_set_valid']_vars

\* styleset_common_init has run a second time, with key files that set
\* invert_all to 0, and invert_all is still the 1 of the first run
C8_Witness ==
    /\ calls = 2
    /\ ret.call = "highlighting_init_styles"
    /\ ret.filetype_idx = GEANY_FILETYPES_NONE
    /\ ret.config = KF_user /\ ret.configh = KF_system
    /\ \E i \in 1..Len(trace) : IsInit(trace[i]) /\ trace[i].w = GEANY_FILETYPES_NONE
    /\ common_style_set.invert_all = 1

(***************************************************************************)
(* C9: highlighting_set_styles requests the configuration load of          *)
(* filetype_idx before it sends any message, then runs exactly one         *)
(* styleset handler; a filetype_idx that is none of the built-in filetypes *)
(* with a handler is handled as None: lexer SCLEX_NULL, STYLE_DEFAULT from *)
(* the common default style, the common wordchars.                         *)
(***************************************************************************)
StylesetRuns == {i \in 1..Len(trace) : trace[i].ev = "styleset"}

\* the message at position i of the trace
IsMsg(i, msg, w, l) ==
    /\ i \in 1..Len(trace)
    /\ trace[i].ev = "msg" /\ trace[i].msg = msg
    /\ trace[i].w = w /\ trace[i].l = l

\* the colour set_sci_style sends for a stored colour
Sent(colour) == IF common_style_set.invert_all = 0 THEN colour ELSE invert(Cur, colour)

C9_SetStylesLoadsFirst ==
    ret.call = "highlighting_set_styles"
       => /\ IsLoadRequest(trace[1], ret.filetype_idx)
          /\ Cardinality(StylesetRuns) = 1
          /\ ret.filetype_idx \notin StyleSetIds
                => \E i \in StylesetRuns :
                      /\ trace[i].w = "none"
                      /\ \A j \in 1..(i - 1) : trace[j].ev # "msg"
                      /\ IsMsg(i + 1, "SCI_SETLEXER", "SCLEX_NULL", 0)
                      /\ trace[i + 2].ev = "set_sci_style"
                      /\ IsMsg(i + 3, "SCI_STYLESETFORE", "STYLE_DEFAULT",
                               Sent(common_style_set.styling["GCS_DEFAULT"].foreground))
                      /\ IsMsg(i + 4, "SCI_STYLESETBACK", "STYLE_DEFAULT",
                               Sent(common_style_set.styling["GCS_DEFAULT"].background))
                      /\ IsMsg(i + 5, "SCI_STYLESETBOLD", "STYLE_DEFAULT",
                               common_style_set.styling["GCS_DEFAULT"].bold)
                      /\ IsMsg(i + 6, "SCI_STYLESETITALIC", "STYLE_DEFAULT",
                               common_style_set.styling["GCS_DEFAULT"].italic)
                      /\ IsMsg(Len(trace) - 1, "SCI_SETWORDCHARS", 0,
                               common_style_set.wordchars)

\* highlighting_set_styles has handled an id above the filetypes as None,
\* with the default style of the system's filetypes.common
C9_Witness ==
    /\ ret.call = "highlighting_set_styles"
    /\ ret.filetype_idx = GEANY_MAX_BUILT_IN_FILETYPES + 1
    /\ \E i \in StylesetRuns : trace[i].w = "none"
    /\ common_style_set.styling["GCS_DEFAULT"].foreground = utils_strtod("0x112233")
    /\ \E i \in 1..Len(trace) :
          IsMsg(i, "SCI_STYLESETFORE", "STYLE_DEFAULT", utils_strtod("0x112233"))

(***************************************************************************)
(* C10: set_sci_style sends exactly four messages for the widget style    *)
(* it is given (foreground, background, bold, italic), with the fields of  *)
(* the record at styling_index of common_style_set when ft is              *)
(* GEANY_FILETYPES_NONE and of style_sets[ft] otherwise; bold and italic   *)
(* are sent as stored and, when invert_all is unset, so are the colours.   *)
(***************************************************************************)
StyleMessages ==
    {"SCI_STYLESETFORE", "SCI_STYLESETBACK", "SCI_STYLESETBOLD", "SCI_STYLESETITALIC"}

\* the record set_sci_style(sci, style, ft, styling_index) reads
StoredStyle(ft, styling_index) ==
    IF ft = GEANY_FILETYPES_NONE THEN common_style_set.styling[styling_index]
    ELSE style_sets[ft].styling.arr[styling_index + 1]

C10_SetSciStyleForwards ==
    \A i \in 1..Len(trace) :
       trace[i].ev = "set_sci_style" =>
          LET style == trace[i].w
              stored == StoredStyle(trace[i].l[1], trace[i].l[2])
          IN /\ i + 4 <= Len(trace)
             /\ trace[i + 1].ev = "msg" /\ trace[i + 1].msg = "SCI_STYLESETFORE"
             /\ trace[i + 1].w = style
             /\ common_style_set.invert_all = 0 => trace[i + 1].l = stored.foreground
             /\ trace[i + 2].ev = "msg" /\ trace[i + 2].msg = "SCI_STYLESETBACK"
             /\ trace[i + 2].w = style
             /\ common_style_set.invert_all = 0 => trace[i + 2].l = stored.background
             /\ IsMsg(i + 3, "SCI_STYLESETBOLD", style, stored.bold)
             /\ IsMsg(i + 4, "SCI_STYLESETITALIC", style, stored.italic)
             /\ i + 5 <= Len(trace)
                   => ~(trace[i + 5].ev = "msg" /\ trace[i + 5].msg \in StyleMessages)

\* the styleset handler of C has sent the comment style of C, which the
\* init handler had stored from its default
C10_Witness ==
    /\ ret.call = "highlighting_set_styles"
    /\ ret.filetype_idx = GEANY_FILETYPES_C
    /\ common_style_set.invert_all = 0
    /\ \E i \in 1..Len(trace) :
          /\ trace[i].ev = "set_sci_style"
          /\ trace[i].w = "SCE_C_COMMENTDOC"
          /\ trace[i].l = <<GEANY_FILETYPES_C, 3>>
          /\ IsMsg(i + 1, "SCI_STYLESETFORE", "SCE_C_COMMENTDOC",
                   rotate_rgb(gsd_comment_doc.foreground))
          /\ IsMsg(i + 3, "SCI_STYLESETBOLD", "SCE_C_COMMENTDOC", TRUE)

(***************************************************************************)
(* C11: after highlighting_free_styles no entry of style_sets holds a      *)
(* pointer to released memory: no later highlighting_get_style or          *)
(* highlighting_set_styles reads (or returns the address of) a freed       *)
(* styling, keywords or wordchars array, and a second                      *)
(* highlighting_free_styles frees no array twice.                          *)
(***************************************************************************)
C11_NoPointerToReleasedMemory ==
    /\ \A i \in StyleSetIds : ~HoldsReleased(style_sets, i)
    /\ faults \cap {"read of a freed array", "double free"} = {}
    /\ \A k \in 1..Len(trace) :
          (trace[k].ev = "msg" /\ trace[k].msg = "SCI_SETWORDCHARS")
             => trace[k].l # FreedStr
    /\ ret.call = "highlighting_get_style" => ret.value.ptr # "freed"

(***************************************************************************)
(* C12: invert negates a colour: with invert_all unset invert(c) = c for   *)
(* every c; with invert_all set, for every colour c in 0..0xFFFFFF,        *)
(* invert(c) = 0xFFFFFF - c, a value in 0..0xFFFFFF whose three bytes are  *)
(* 255 minus the bytes of c.                                               *)
(***************************************************************************)
IsColour(c) == 0 <= c /\ c <= 16777215

\* the byte n (0: the lowest) of a colour
ByteOf(c, n) == IF n = 0 THEN c % 256 ELSE IF n = 1 THEN (c \div 256) % 256
                ELSE (c \div 65536) % 256

C12_InvertNegates ==
    getter_result.getter = "invert" =>
       IF common_style_set.invert_all = 0
       THEN getter_result.result = getter_args.colour
       ELSE IsColour(getter_args.colour) =>
               /\ getter_result.result = 16777215 - getter_args.colour
               /\ IsColour(getter_result.result)
               /\ \A n \in 0..2 :
                     ByteOf(getter_result.result, n) = 255 - ByteOf(getter_args.colour, n)

(***************************************************************************)
(* C13: rotate_rgb converts 0xRRGGBB to 0xBBGGRR: for every c in           *)
(* 0..0xFFFFFF the result has the red and blue bytes of c exchanged and    *)
(* the green byte unchanged, is again in 0..0xFFFFFF, and rotate_rgb of    *)
(* the result is c.                                                        *)
(***************************************************************************)
C13_RotateExchangesRedAndBlue ==
    (getter_result.getter = "rotate_rgb" /\ IsColour(getter_args.colour)) =>
       /\ ByteOf(getter_result.result, 0) = ByteOf(getter_args.colour, 2)
       /\ ByteOf(getter_result.result, 1) = ByteOf(getter_args.colour, 1)
       /\ ByteOf(getter_result.result, 2) = ByteOf(getter_args.colour, 0)
       /\ IsColour(getter_result.result)
       /\ rotate_rgb(getter_result.result) = getter_args.colour

\* rotate_rgb(0xFF7F01) has returned 0x017FFF
C13_Witness ==
    /\ getter_result.getter = "rotate_rgb"
    /\ getter_args.colour = 255 * 65536 + 127 * 256 + 1
    /\ getter_result.result = 1 * 65536 + 127 * 256 + 255

(***************************************************************************)
(* C14: in get_keyfile_style and get_keyfile_hex each of the four fields   *)
(* falls back on its own: for a configured list of k fields, 0 <= k <= 4,  *)
(* the first k of foreground, background, bold, italic come from the list  *)
(* and the others from the defaults. get_keyfile_style passes the default  *)
(* colours through rotate_rgb and the configured ones not; in              *)
(* get_keyfile_hex the default italic is FALSE and a NULL default colour   *)
(* leaves the colour as it was.                                            *)
(***************************************************************************)
\* the list of the key: the user's, or else the system's
TheList == LayeredList(getter_args.config, getter_args.configh, "styling", "default")

\* field i (from 1) of the configured list, converted, or else the default
FieldOr(i, convert(_), default) ==
    IF TheList.ptr # "NULL" /\ i <= Len(TheList.arr) THEN convert(TheList.arr[i])
    ELSE default

\* a default colour string of get_keyfile_hex; was is the colour before
HexDefault(colour, was) == IF colour = NULL THEN was ELSE utils_strtod(colour)

C14_FieldsFallBackIndependently ==
    /\ (getter_result.getter = "get_keyfile_style" /\ BothPresent) =>
          getter_result.result =
             [foreground |-> FieldOr(1, utils_strtod,
                                     rotate_rgb(getter_args.default_style.foreground)),
              background |-> FieldOr(2, utils_strtod,
                                     rotate_rgb(getter_args.default_style.background)),
              bold |-> FieldOr(3, utils_atob, getter_args.default_style.bold),
              italic |-> FieldOr(4, utils_atob, getter_args.default_style.italic)]
    /\ (getter_result.getter = "get_keyfile_hex" /\ BothPresent) =>
          getter_result.result =
             [foreground |-> FieldOr(1, utils_strtod, HexDefault("0x112233", 0)),
              background |-> FieldOr(2, utils_strtod, HexDefault("0xffffff", 0)),
              bold |-> FieldOr(3, utils_atob, utils_atob("true")),
              italic |-> FieldOr(4, utils_atob, FALSE)]
    /\ (getter_result.getter = "get_keyfile_hex, NULL colours" /\ BothPresent) =>
          getter_result.result =
             [foreground |-> FieldOr(1, utils_strtod,
                                     HexDefault(NULL, getter_args.style.foreground)),
              background |-> FieldOr(2, utils_strtod,
                                     HexDefault(NULL, getter_args.style.background)),
              bold |-> FieldOr(3, utils_atob, utils_atob("true")),
              italic |-> FieldOr(4, utils_atob, FALSE)]

(***************************************************************************)
(* C15: layering is per key, not per field: when the user configuration    *)
(* defines a style key with fewer than four fields, the missing fields are *)
(* filled from the hard-coded defaults and never from the system           *)
(* configuration's entry for the key, even if that entry defines them.     *)
(***************************************************************************)
StyleFields == <<"foreground", "background", "bold", "italic">>

\* the hard-coded defaults of the getter called g
DefaultsOf(g) ==
    CASE g = "get_keyfile_style" ->
            Style(rotate_rgb(getter_args.default_style.foreground),
                  rotate_rgb(getter_args.default_style.background),
                  getter_args.default_style.bold, getter_args.default_style.italic)
      [] g = "get_keyfile_hex" ->
            Style(utils_strtod("0x112233"), utils_strtod("0xffffff"), TRUE, FALSE)
      [] g = "get_keyfile_hex, NULL colours" ->
            Style(getter_args.style.foreground, getter_args.style.background, TRUE, FALSE)

C15_MissingFieldsFromDefaults ==
    (/\ getter_result.getter \in
           {"get_keyfile_style", "get_keyfile_hex", "get_keyfile_hex, NULL colours"}
     /\ BothPresent
     /\ UserList.ptr # "NULL")
       => \A i \in (Len(UserList.arr) + 1)..4 :
             getter_result.result[StyleFields[i]]
                = DefaultsOf(getter_result.getter)[StyleFields[i]]

=============================================================================
